---- MODULE Spec2Model ----
(***************************************************************************)
(* Model of utils.py of flat-scripts: find_unique_paths (the recursive     *)
(* enumerator of regular files) and PathMatcher (prefix / exact / glob     *)
(* path patterns); of cleanup-sources.py, the script that runs on the      *)
(* enumerated files; and of no-first-comment-difftool.py, which detects    *)
(* the leading comment of the enumerated files and removes it.             *)
(*                                                                         *)
(* A Python str is modelled as a sequence of one-character strings, so     *)
(* that comparison, startswith, substring search and f-string joins are    *)
(* computed character by character as Python computes them.                *)
(***************************************************************************)
EXTENDS Integers, Sequences, FiniteSets, TLC

VARIABLES
    fs,                  \* the directory tree below real_dir: a set of entries
    exclude_file_names,  \* the exclude_file_names argument of find_unique_paths
    calls,               \* the calls of find_unique_paths made so far, oldest
                         \* first: the listing order and the failing call the
                         \* OS answered with, the local list `paths` when the
                         \* call ended, and what the caller observed
    disk,                \* the files PathMatcher sees: a set of entries
    root_dir,            \* the root_dir argument of PathMatcher
    subpaths,            \* the subpaths argument of PathMatcher
    matcher,             \* the PathMatcher object: prefixes, files_set, files
    stdout,              \* the lines printed so far
    queries,             \* the calls of matches made so far and their answers
    args,                \* the command line of the script that is run
    data,                \* the regular files of the tree by path: what their
                         \* bytes decode to, in which encoding, and st_mode
    run                  \* the run of the script: where it is, its local
                         \* lists, how it ended, and the filesystem
                         \* operations it has done

enumVars == <<fs, exclude_file_names, calls>>
matcherVars == <<disk, root_dir, subpaths, matcher, stdout, queries>>
cleanupVars == <<args, data, run>>
vars == <<fs, exclude_file_names, calls, disk, root_dir, subpaths, matcher, stdout,
          queries, args, data, run>>

----------------------------------------------------------------------------
(* Bounds of the model.                                                    *)

MaxEntries == 3      \* entries (files, directories, links...) in a tree
MaxCalls == 2        \* calls of find_unique_paths on the same tree
MaxQueries == 2      \* calls of matches on the same PathMatcher
MaxTextLen == 4      \* characters in the text of the file fix_eol is run on
MaxRuns == 2         \* invocations of cleanup-sources.py on the same project
MaxLines == 3        \* lines of the file detect_comment_n is run on

----------------------------------------------------------------------------
(* Python str.                                                             *)

\* Unicode code points of the characters that occur in the model; Python
\* compares str values code point by code point.
CodePoint ==
    ("*" :> 42) @@ ("." :> 46) @@ ("/" :> 47) @@
    ("A" :> 65) @@ ("D" :> 68) @@ ("E" :> 69) @@ ("M" :> 77) @@ ("R" :> 82) @@
    ("_" :> 95) @@
    ("a" :> 97) @@ ("b" :> 98) @@ ("c" :> 99) @@ ("d" :> 100) @@
    ("e" :> 101) @@ ("f" :> 102) @@
    ("g" :> 103) @@ ("h" :> 104) @@ ("i" :> 105) @@ ("k" :> 107) @@ ("l" :> 108) @@
    ("m" :> 109) @@
    ("n" :> 110) @@ ("o" :> 111) @@ ("p" :> 112) @@ ("r" :> 114) @@
    ("s" :> 115) @@ ("t" :> 116) @@ ("u" :> 117) @@ ("x" :> 120) @@
    ("y" :> 121) @@ ("z" :> 122)

\* a < b for two str values
StrLess(a, b) ==
    \E i \in 1..(Len(a) + 1) :
        /\ i <= Len(b)
        /\ \A j \in 1..(i - 1) : a[j] = b[j]
        /\ \/ i = Len(a) + 1
           \/ CodePoint[a[i]] < CodePoint[b[i]]

\* s.startswith(prefix)
startswith(s, prefix) ==
    /\ Len(prefix) <= Len(s)
    /\ SubSeq(s, 1, Len(prefix)) = prefix

\* sub in s, for two str values: substring search
StrContains(s, sub) ==
    \E i \in 0..(Len(s) - Len(sub)) : SubSeq(s, i + 1, i + Len(sub)) = sub

\* f'{a}/{b}'
Join(a, b) == a \o <<"/">> \o b

RECURSIVE Insert(_, _)
Insert(x, sortedSeq) ==
    IF sortedSeq = <<>> THEN <<x>>
    ELSE IF StrLess(x, Head(sortedSeq)) THEN <<x>> \o sortedSeq
    ELSE <<Head(sortedSeq)>> \o Insert(x, Tail(sortedSeq))

RECURSIVE SortFrom(_, _)
SortFrom(list, acc) ==
    IF list = <<>> THEN acc ELSE SortFrom(Tail(list), Insert(Head(list), acc))

\* a listing left in the order the OS returned it
unsorted(list) == list

\* sorted(list) for a list of str
sorted(list) == SortFrom(list, <<>>)

----------------------------------------------------------------------------
(* The names that occur in the model.                                      *)

DotGit == <<".", "g", "i", "t">>
DotGitSlash == <<".", "g", "i", "t", "/">>
Git == <<"g", "i", "t">>
LowerA == <<"a">>
Dot == <<".">>
Readme == <<"R", "E", "A", "D", "M", "E">>
Lib == <<"l", "i", "b">>
APy == <<"a", ".", "p", "y">>
BPy == <<"b", ".", "p", "y">>
Config == <<"c", "o", "n", "f", "i", "g">>

\* the names the generated trees draw from
Names == {DotGit, Git, LowerA}

\* st_mode file types: S_IFDIR, S_IFREG, S_IFLNK, S_IFCHR, S_IFBLK, S_IFIFO
Modes == {"dir", "reg", "lnk", "chr", "blk", "fifo"}

S_ISDIR(st_mode) == st_mode = "dir"
S_ISREG(st_mode) == st_mode = "reg"
S_ISLNK(st_mode) == st_mode = "lnk"
S_ISCHR(st_mode) == st_mode = "chr"
S_ISBLK(st_mode) == st_mode = "blk"

\* utils.DefaultExcludeFileNames = ['.git']
DefaultExcludeFileNames == [type |-> "list", v |-> <<DotGit>>]

\* the second argument convert_all passes: the str '.git/'
ConvertAllExclude == [type |-> "str", v |-> DotGitSlash]

\* x in container, for a Python list of str or a Python str
In(x, container) ==
    IF container.type = "list"
    THEN \E i \in 1..Len(container.v) : container.v[i] = x
    ELSE StrContains(container.v, x)

----------------------------------------------------------------------------
(* The directory tree.  An entry is [dir, name, mode]: dir is the path of  *)
(* the directory holding it as scan_path spells it ('.' for the root).     *)

\* the path of an entry, relative to the root
EntryPath(e) == IF e.dir = Dot THEN e.name ELSE Join(e.dir, e.name)

\* the entries that can be added to tree t, with a mode of ms: an entry of
\* an existing directory whose path comes after every path of t, so that
\* each tree is built once, its entries added in the order of their paths
Extensions(t, ms) ==
    { e \in [dir : {Dot} \cup {EntryPath(d) : d \in {x \in t : x.mode = "dir"}},
             name : Names, mode : ms] :
        \A x \in t : StrLess(EntryPath(x), EntryPath(e)) }

RECURSIVE TreesOfSize(_, _)
TreesOfSize(n, ms) ==
    IF n = 0 THEN {{}}
    ELSE UNION {{t \cup {e} : e \in Extensions(t, ms)} : t \in TreesOfSize(n - 1, ms)}

\* every tree of at most MaxEntries entries
Trees == UNION {TreesOfSize(n, Modes) : n \in 0..MaxEntries}

\* the tree of the end-to-end scenario: .git/config, README, lib/a.py, lib/b.py
ScenarioTree ==
    { [dir |-> Dot, name |-> DotGit, mode |-> "dir"],
      [dir |-> DotGit, name |-> Config, mode |-> "reg"],
      [dir |-> Dot, name |-> Readme, mode |-> "reg"],
      [dir |-> Dot, name |-> Lib, mode |-> "dir"],
      [dir |-> Lib, name |-> APy, mode |-> "reg"],
      [dir |-> Lib, name |-> BPy, mode |-> "reg"] }

----------------------------------------------------------------------------
(* The operating system calls find_unique_paths makes.  os is the record   *)
(* [fs, order, fault]: the tree, the order in which directory listings     *)
(* come back, and the call that fails (if any).  A call returns a record   *)
(* whose exc field is "none" or the errno of the OSError it raised.        *)

NoFault == [op |-> "none", path |-> <<>>, errno |-> "none"]

\* the orders a directory listing can come back in
ListingOrders == {"asc", "desc", "maxfirst"}

Least(S) == CHOOSE x \in S : \A y \in S \ {x} : StrLess(x, y)
Greatest(S) == CHOOSE x \in S : \A y \in S \ {x} : StrLess(y, x)

RECURSIVE Listing(_, _)
Listing(S, order) ==
    IF S = {} THEN <<>>
    ELSE IF order = "asc" THEN <<Least(S)>> \o Listing(S \ {Least(S)}, order)
    ELSE IF order = "desc" THEN <<Greatest(S)>> \o Listing(S \ {Greatest(S)}, order)
    ELSE <<Greatest(S)>> \o Listing(S \ {Greatest(S)}, "asc")

\* os.listdir(f'{real_dir}/{dir_path}')
listdir(os, dir_path) ==
    IF os.fault.op = "listdir" /\ os.fault.path = dir_path
    THEN [exc |-> os.fault.errno, value |-> <<>>]
    ELSE [exc |-> "none",
          value |-> Listing({e.name : e \in {x \in os.fs : x.dir = dir_path}}, os.order)]

\* os.stat(f'{real_dir}/{file_path}', follow_symlinks=False)
stat(os, file_path) ==
    IF os.fault.op = "stat" /\ os.fault.path = file_path
    THEN [exc |-> os.fault.errno, st_mode |-> "none"]
    ELSE IF \E e \in os.fs : EntryPath(e) = file_path
    THEN [exc |-> "none",
          st_mode |-> (CHOOSE e \in os.fs : EntryPath(e) = file_path).mode]
    ELSE [exc |-> "ENOENT", st_mode |-> "none"]

----------------------------------------------------------------------------
(* find_unique_paths.                                                      *)

\* is_excluded with a test no name passes
is_excluded_never(exclude, file_name) == FALSE

\* is_excluded matching a name that is part of an excluded name
is_excluded_substring(exclude, file_name) ==
    IF exclude.type = "list"
    THEN \E i \in 1..Len(exclude.v) : StrContains(exclude.v[i], file_name)
    ELSE StrContains(exclude.v, file_name)

\* scan_path.is_excluded
is_excluded(exclude, file_name) == In(file_name, exclude)

\* scan_path.make_info
make_info(os, dir_path, file_name) ==
    LET file_path == IF dir_path = Dot THEN file_name ELSE Join(dir_path, file_name)
        st == stat(os, file_path)
    IN  [exc |-> st.exc, file_name |-> file_name, file_path |-> file_path,
         st_mode |-> st.st_mode]

\* file_infos = [make_info(f) for f in file_names if not is_excluded(f)]:
\* the first stat that raises ends the comprehension
RECURSIVE file_infos_of(_, _, _, _, _)
file_infos_of(os, exclude, dir_path, file_names, acc) ==
    IF file_names = <<>> THEN [exc |-> "none", value |-> acc]
    ELSE IF is_excluded(exclude, Head(file_names))
    THEN file_infos_of(os, exclude, dir_path, Tail(file_names), acc)
    ELSE LET info == make_info(os, dir_path, Head(file_names))
         IN  IF info.exc # "none" THEN [exc |-> info.exc, value |-> acc]
             ELSE file_infos_of(os, exclude, dir_path, Tail(file_names),
                                Append(acc, info))

\* the test of the second loop with the S_ISREG conjunct left out
is_listed_no_isreg(st_mode) ==
    ~S_ISLNK(st_mode) /\ ~S_ISCHR(st_mode) /\ ~S_ISBLK(st_mode)

\* the test of the second loop of scan_path
is_listed(st_mode) ==
    ~S_ISLNK(st_mode) /\ ~S_ISCHR(st_mode) /\ ~S_ISBLK(st_mode) /\ S_ISREG(st_mode)

\* the second loop of scan_path: the direct files of the directory
RECURSIVE append_files(_, _)
append_files(file_infos, paths_in) ==
    IF file_infos = <<>> THEN paths_in
    ELSE LET st_mode == Head(file_infos).st_mode
         IN  append_files(Tail(file_infos),
                 IF ~S_ISDIR(st_mode) /\ is_listed(st_mode)
                 THEN Append(paths_in, Head(file_infos).file_path)
                 ELSE paths_in)

RECURSIVE scan_path(_, _, _, _)
RECURSIVE scan_dirs(_, _, _, _)

\* the first loop of scan_path: recurse into every directory; an exception
\* raised by a nested scan_path ends the loop
scan_dirs(os, exclude, file_infos, paths_in) ==
    IF file_infos = <<>> THEN [exc |-> "none", paths |-> paths_in]
    ELSE IF S_ISDIR(Head(file_infos).st_mode)
    THEN LET sub == scan_path(os, exclude, Head(file_infos).file_path, paths_in)
         IN  IF sub.exc # "none" THEN sub
             ELSE scan_dirs(os, exclude, Tail(file_infos), sub.paths)
    ELSE scan_dirs(os, exclude, Tail(file_infos), paths_in)

\* a scan_path that lists the direct files before it recurses
scan_path_files_first(os, exclude, dir_path, paths_in) ==
    LET listed == listdir(os, dir_path)
    IN  IF listed.exc # "none" THEN [exc |-> listed.exc, paths |-> paths_in]
        ELSE LET file_names == sorted(listed.value)
                 file_infos == file_infos_of(os, exclude, dir_path, file_names, <<>>)
             IN  IF file_infos.exc # "none"
                 THEN [exc |-> file_infos.exc, paths |-> paths_in]
                 ELSE scan_dirs(os, exclude, file_infos.value,
                                append_files(file_infos.value, paths_in))

\* scan_path(dir_path), acting on the list paths of the enclosing call
scan_path(os, exclude, dir_path, paths_in) ==
    LET listed == listdir(os, dir_path)
    IN  IF listed.exc # "none" THEN [exc |-> listed.exc, paths |-> paths_in]
        ELSE LET file_names == sorted(listed.value)
                 file_infos == file_infos_of(os, exclude, dir_path, file_names, <<>>)
             IN  IF file_infos.exc # "none"
                 THEN [exc |-> file_infos.exc, paths |-> paths_in]
                 ELSE LET dirs == scan_dirs(os, exclude, file_infos.value, paths_in)
                      IN  IF dirs.exc # "none" THEN dirs
                          ELSE [exc |-> "none",
                                paths |-> append_files(file_infos.value, dirs.paths)]

Return(value) == [kind |-> "return", value |-> value]
Raise(errno) == [kind |-> "raise", errno |-> errno]
NoCall == [kind |-> "none"]

\* a find_unique_paths that catches the OSError and returns what it has
find_unique_paths_partial(os, exclude) ==
    LET scanned == scan_path(os, exclude, Dot, <<>>)
    IN  [paths |-> scanned.paths, outcome |-> Return(scanned.paths)]

\* find_unique_paths(root_dir, exclude_file_names): the final value of the
\* local list paths, and what the caller observes
find_unique_paths(os, exclude) ==
    LET scanned == scan_path(os, exclude, Dot, <<>>)
    IN  [paths |-> scanned.paths,
         outcome |-> IF scanned.exc = "none" THEN Return(scanned.paths)
                     ELSE Raise(scanned.exc)]

----------------------------------------------------------------------------
(* Specification Spec: calls of find_unique_paths on a tree whose every    *)
(* listdir and stat succeeds.                                              *)

\* the exclude_file_names values of the model: the default, the value
\* convert_all passes, and a list of two names
Excludes ==
    { DefaultExcludeFileNames, ConvertAllExclude,
      [type |-> "list", v |-> <<LowerA, Git>>] }

\* cleanup-sources.py is not run
NotRun == [pc |-> "none"]
\* config without 'exe' and 'nonexe': what dict() and config.get give
NoConfig == [exe |-> [type |-> "None"], nonexe |-> [type |-> "None"]]
NoArgs == [utf |-> FALSE, eol |-> FALSE, exe |-> FALSE, lic |-> FALSE,
           files |-> [type |-> "None"], config |-> NoConfig]

CleanupIdle ==
    /\ args = NoArgs
    /\ data = <<>>
    /\ run = NotRun

\* no PathMatcher is in play
MatcherIdle ==
    /\ disk = {}
    /\ root_dir = [type |-> "None"]
    /\ subpaths = [type |-> "None"]
    /\ matcher = [built |-> FALSE]
    /\ stdout = <<>>
    /\ queries = <<>>

Init ==
    /\ fs \in Trees \cup {ScenarioTree}
    /\ exclude_file_names \in Excludes
    /\ calls = <<>>
    /\ MatcherIdle
    /\ CleanupIdle

\* the record of one call find_unique_paths(root_dir, exclude_file_names)
CallRecord(order, f) ==
    LET r == find_unique_paths([fs |-> fs, order |-> order, fault |-> f],
                               exclude_file_names)
    IN  [order |-> order, fault |-> f, paths |-> r.paths, outcome |-> r.outcome]

\* one call of find_unique_paths, every filesystem call succeeding
Call ==
    /\ Len(calls) < MaxCalls
    /\ \E order \in ListingOrders : calls' = Append(calls, CallRecord(order, NoFault))
    /\ UNCHANGED <<fs, exclude_file_names>>
    /\ UNCHANGED matcherVars
    /\ UNCHANGED cleanupVars

Next == Call

Spec == Init /\ [][Next]_vars

----------------------------------------------------------------------------
(* Specification SpecFault: one call of find_unique_paths during which one *)
(* listdir or stat may fail, on the trees of directories and regular files *)
(* with the default exclusions.                                            *)

\* the directories of tree t, as scan_path spells them
DirPaths(t) == {Dot} \cup {EntryPath(e) : e \in {x \in t : x.mode = "dir"}}

\* the single failures of a filesystem call on tree t
Faults(t) ==
    [op : {"listdir"}, path : DirPaths(t), errno : {"EACCES", "ENOENT"}]
    \cup [op : {"stat"}, path : {EntryPath(e) : e \in t}, errno : {"EACCES", "ENOENT"}]

InitFault ==
    /\ fs \in UNION {TreesOfSize(n, {"dir", "reg"}) : n \in 0..MaxEntries}
    /\ exclude_file_names = DefaultExcludeFileNames
    /\ calls = <<>>
    /\ MatcherIdle
    /\ CleanupIdle

\* one call of find_unique_paths during which the filesystem call f fails
FaultyCall ==
    /\ calls = <<>>
    /\ \E order \in ListingOrders, f \in Faults(fs) :
         calls' = Append(calls, CallRecord(order, f))
    /\ UNCHANGED <<fs, exclude_file_names>>
    /\ UNCHANGED matcherVars
    /\ UNCHANGED cleanupVars

NextFault == FaultyCall

SpecFault == InitFault /\ [][NextFault]_vars

----------------------------------------------------------------------------
(* The files PathMatcher sees.  A disk is a set of entries [dir, name,     *)
(* mode, target] below one directory, which is both the directory /r that  *)
(* root_dir names and the current directory of the process; target is the  *)
(* path a symbolic link points to.                                         *)

RootName == <<"r">>
RootDir == <<"/", "r">>

\* the pieces of a path between slashes, empty pieces dropped
RECURSIVE SplitFrom(_, _, _)
SplitFrom(s, piece, acc) ==
    IF s = <<>> THEN (IF piece = <<>> THEN acc ELSE Append(acc, piece))
    ELSE IF Head(s) = "/"
    THEN SplitFrom(Tail(s), <<>>, IF piece = <<>> THEN acc ELSE Append(acc, piece))
    ELSE SplitFrom(Tail(s), Append(piece, Head(s)), acc)

Components(s) == SplitFrom(s, <<>>, <<>>)

RECURSIVE JoinComponents(_)
JoinComponents(comps) ==
    IF comps = <<>> THEN <<>>
    ELSE IF Len(comps) = 1 THEN comps[1]
    ELSE Join(comps[1], JoinComponents(Tail(comps)))

NotFound == [ok |-> FALSE, mode |-> "none", path |-> <<>>]
Found(mode, path) == [ok |-> TRUE, mode |-> mode, path |-> path]
IsDirNode(node) == node.ok /\ node.mode = "dir"
HasTrailingSlash(path) == path # <<>> /\ path[Len(path)] = "/"

RECURSIVE Walk(_, _, _, _)

\* the node a symbolic link with these target components points to
DerefLink(d, target) ==
    IF target # <<>> /\ Head(target) = RootName
    THEN Walk(d, Tail(target), Dot, TRUE)
    ELSE NotFound

\* the node entry e stands for: its target if it is a symbolic link that
\* is followed, else itself
Deref(d, e, followed) ==
    IF e.mode = "lnk" /\ followed THEN DerefLink(d, Components(e.target))
    ELSE Found(e.mode, EntryPath(e))

\* path resolution goes on from node hit with the components rest
WalkOn(d, rest, follow, hit) ==
    IF ~hit.ok THEN NotFound
    ELSE IF rest = <<>> THEN hit
    ELSE IF hit.mode = "dir" THEN Walk(d, rest, hit.path, follow)
    ELSE NotFound

\* path resolution by the kernel: walks comps from the directory at, follows
\* the symbolic links on the way, and the last one too if follow
Walk(d, comps, at, follow) ==
    IF comps = <<>> THEN Found("dir", at)
    ELSE IF Head(comps) = Dot THEN Walk(d, Tail(comps), at, follow)
    ELSE IF ~\E e \in d : e.dir = at /\ e.name = Head(comps) THEN NotFound
    ELSE WalkOn(d, Tail(comps), follow,
                Deref(d, CHOOSE e \in d : e.dir = at /\ e.name = Head(comps),
                      Len(comps) > 1 \/ follow))

\* the node of a path of these components: a relative path starts at the
\* current directory, an absolute one has to lead into /r
ResolveFrom(d, path, comps, follow) ==
    IF \/ path = <<>>
       \/ Head(path) = "/" /\ (comps = <<>> \/ Head(comps) # RootName)
    THEN NotFound
    ELSE Walk(d, IF Head(path) = "/" THEN Tail(comps) ELSE comps, Dot, follow)

\* a path with a trailing slash names a directory only
DirOnly(found, trailing) ==
    IF found.ok /\ trailing /\ found.mode # "dir" THEN NotFound ELSE found

\* what the path names
Resolve(d, path, follow) ==
    DirOnly(ResolveFrom(d, path, Components(path), follow \/ HasTrailingSlash(path)),
            HasTrailingSlash(path))

\* os.path.isdir(path)
isdir(d, path) == IsDirNode(Resolve(d, path, TRUE))

\* os.path.lexists(path)
lexists(d, path) == Resolve(d, path, FALSE).ok

\* os.stat(path, follow_symlinks=False).st_mode
lstat_mode(d, path) == Resolve(d, path, FALSE).mode

\* os.path.join(a, b)
ospath_join(a, b) ==
    IF b # <<>> /\ Head(b) = "/" THEN b
    ELSE IF a = <<>> \/ a[Len(a)] = "/" THEN a \o b
    ELSE a \o <<"/">> \o b

RECURSIVE rstrip_slash(_)
rstrip_slash(s) ==
    IF s # <<>> /\ s[Len(s)] = "/" THEN rstrip_slash(SubSeq(s, 1, Len(s) - 1)) ELSE s

\* the index of the last slash of path, 0 if it has none
LastSlash(path) ==
    IF \E i \in 1..Len(path) : path[i] = "/"
    THEN CHOOSE k \in 1..Len(path) :
            path[k] = "/" /\ \A j \in (k + 1)..Len(path) : path[j] # "/"
    ELSE 0

\* head.rstrip('/') unless head is slashes only
SplitHead(head, stripped) == IF stripped # <<>> THEN stripped ELSE head

SplitAt(path, i) ==
    [head |-> SplitHead(SubSeq(path, 1, i), rstrip_slash(SubSeq(path, 1, i))),
     tail |-> SubSeq(path, i + 1, Len(path))]

\* os.path.split(path)
ospath_split(path) == SplitAt(path, LastSlash(path))

\* the number of leading components two paths share
CommonLen(cp, cs) ==
    CHOOSE n \in 0..Len(cs) :
        /\ n <= Len(cp)
        /\ \A k \in 1..n : cp[k] = cs[k]
        /\ (n = Len(cs) \/ n = Len(cp) \/ cp[n + 1] # cs[n + 1])

RelOrDot(rel) == IF rel = <<>> THEN Dot ELSE JoinComponents(rel)

RelFrom(cp, cs, common) ==
    RelOrDot([k \in 1..(Len(cs) - common) |-> <<".", ".">>]
             \o SubSeq(cp, common + 1, Len(cp)))

RelSplit(cp, cs) == RelFrom(cp, cs, CommonLen(cp, cs))

\* os.path.relpath(path, start), for two absolute paths
relpath(path, start) == RelSplit(Components(path), Components(start))

----------------------------------------------------------------------------
(* glob.glob(pathname, recursive=True) of the standard library.            *)

has_magic(s) == \E i \in 1..Len(s) : s[i] = "*"
_isrecursive(pattern) == pattern = <<"*", "*">>
_ishidden(name) == name # <<>> /\ name[1] = "."

\* fnmatch.fnmatch(name, pat), for patterns of literal characters and '*'
RECURSIVE fnmatch(_, _)
fnmatch(name, pat) ==
    IF pat = <<>> THEN name = <<>>
    ELSE IF Head(pat) = "*"
    THEN fnmatch(name, Tail(pat)) \/ (name # <<>> /\ fnmatch(Tail(name), pat))
    ELSE name # <<>> /\ Head(name) = Head(pat) /\ fnmatch(Tail(name), Tail(pat))

\* glob._join
_join(dirname, basename) ==
    IF dirname = <<>> THEN basename
    ELSE IF basename = <<>> THEN dirname
    ELSE ospath_join(dirname, basename)

\* the filter of glob._iterdir: every name, or the directories alone
RECURSIVE keep_dirs(_, _, _, _)
keep_dirs(d, at, dironly, names) ==
    IF names = <<>> THEN <<>>
    ELSE (IF ~dironly \/ isdir(d, ospath_join(at, Head(names)))
          THEN <<Head(names)>> ELSE <<>>)
         \o keep_dirs(d, at, dironly, Tail(names))

\* glob._iterdir on the node at: nothing if it is no directory
scandir(d, order, at, dironly) ==
    IF ~IsDirNode(at) THEN <<>>
    ELSE keep_dirs(d, at.path, dironly,
                   Listing({e.name : e \in {x \in d : x.dir = at.path}}, order))

\* glob._listdir: the names os.scandir gives, the directories alone if dironly
_listdir(d, order, dirname, dironly) ==
    scandir(d, order, Resolve(d, IF dirname = <<>> THEN Dot ELSE dirname, TRUE), dironly)

\* [os.path.join(dirname, name) for name in names]
JoinAll(dirname, names) == [i \in 1..Len(names) |-> ospath_join(dirname, names[i])]

\* [glob._join(x, y) for y in names]
_JoinAll(x, names) == [i \in 1..Len(names) |-> _join(x, names[i])]

RECURSIVE _rlistdir(_, _, _, _)

\* the loop of glob._rlistdir over names
RECURSIVE _rlistdir_names(_, _, _, _, _)
_rlistdir_names(d, order, dirname, dironly, names) ==
    IF names = <<>> THEN <<>>
    ELSE (IF _ishidden(Head(names)) THEN <<>>
          ELSE <<Head(names)>>
               \o _JoinAll(Head(names),
                           _rlistdir(d, order,
                                     IF dirname # <<>> THEN _join(dirname, Head(names))
                                     ELSE Head(names),
                                     dironly)))
         \o _rlistdir_names(d, order, dirname, dironly, Tail(names))

\* glob._rlistdir
_rlistdir(d, order, dirname, dironly) ==
    _rlistdir_names(d, order, dirname, dironly, _listdir(d, order, dirname, dironly))

\* a glob._glob2 that does not descend
_glob2_flat(d, order, dirname, dironly) == <<<<>>>>

\* glob._glob2
_glob2(d, order, dirname, dironly) == <<<<>>>> \o _rlistdir(d, order, dirname, dironly)

\* fnmatch.filter(names, pattern) after the hidden names are dropped
RECURSIVE fnmatch_filter(_, _)
fnmatch_filter(names, pattern) ==
    IF names = <<>> THEN <<>>
    ELSE (IF /\ _ishidden(pattern) \/ ~_ishidden(Head(names))
             /\ fnmatch(Head(names), pattern)
          THEN <<Head(names)>> ELSE <<>>)
         \o fnmatch_filter(Tail(names), pattern)

\* glob._glob1
_glob1(d, order, dirname, pattern, dironly) ==
    fnmatch_filter(_listdir(d, order, dirname, dironly), pattern)

\* glob._glob0
_glob0(d, dirname, basename) ==
    IF basename # <<>>
    THEN (IF lexists(d, _join(dirname, basename)) THEN <<basename>> ELSE <<>>)
    ELSE (IF isdir(d, dirname) THEN <<basename>> ELSE <<>>)

\* glob_in_dir(dirname, basename, ...) as glob._iglob selects it
glob_in_dir(d, order, dirname, basename, dironly) ==
    IF ~has_magic(basename) THEN _glob0(d, dirname, basename)
    ELSE IF _isrecursive(basename) THEN _glob2(d, order, dirname, dironly)
    ELSE _glob1(d, order, dirname, basename, dironly)

\* the last loop of glob._iglob
RECURSIVE glob_in_dirs(_, _, _, _, _)
glob_in_dirs(d, order, dirs, basename, dironly) ==
    IF dirs = <<>> THEN <<>>
    ELSE JoinAll(Head(dirs), glob_in_dir(d, order, Head(dirs), basename, dironly))
         \o glob_in_dirs(d, order, Tail(dirs), basename, dironly)

RECURSIVE _iglob(_, _, _, _)

\* glob._iglob after dirname, basename = os.path.split(pathname); with no
\* dirname the names glob_in_dir gives are yielded as they are
_iglob_split(d, order, pathname, dironly, dirname, basename) ==
    IF ~has_magic(pathname)
    THEN (IF basename # <<>>
          THEN (IF lexists(d, pathname) THEN <<pathname>> ELSE <<>>)
          ELSE (IF isdir(d, dirname) THEN <<pathname>> ELSE <<>>))
    ELSE glob_in_dirs(d, order,
                      IF dirname # <<>> /\ dirname # pathname /\ has_magic(dirname)
                      THEN _iglob(d, order, dirname, TRUE)
                      ELSE <<dirname>>,
                      basename, dironly)

\* glob._iglob
_iglob(d, order, pathname, dironly) ==
    _iglob_split(d, order, pathname, dironly,
                 ospath_split(pathname).head, ospath_split(pathname).tail)

\* the empty first result is skipped
skip_empty(it, skip) == IF skip /\ it # <<>> /\ Head(it) = <<>> THEN Tail(it) ELSE it

\* glob.glob(pathname, recursive=True)
glob(d, order, pathname) ==
    skip_empty(_iglob(d, order, pathname, FALSE),
               pathname = <<>> \/ (Len(pathname) >= 2 /\ _isrecursive(SubSeq(pathname, 1, 2))))

----------------------------------------------------------------------------
(* PathMatcher.                                                            *)

\* 'link: ' and 'add: '
LinkLabel == <<"l", "i", "n", "k", ":", " ">>
AddLabel == <<"a", "d", "d", ":", " ">>

\* the loop of __init__ run over the argument as it is given: a str is
\* iterated character by character
subpaths_as_given(given) ==
    IF given.type = "None" THEN <<>>
    ELSE IF given.type # "list" THEN [i \in 1..Len(given.v) |-> <<given.v[i]>>]
    ELSE given.v

\* the subpaths argument as the list the loop of __init__ runs over
subpaths_list(given) ==
    IF given.type = "None" THEN <<>>
    ELSE IF given.type # "list" THEN <<given.v>>
    ELSE given.v

\* an is_link_prefixed that finds no link
is_link_prefixed_never(wild_links, wild_file) == FALSE

\* is_link_prefixed(wild_file)
is_link_prefixed(wild_links, wild_file) ==
    \E wild_link \in wild_links : startswith(wild_file, wild_link)

\* the body of the loop over wild_list; acc is [wild_set, wild_links, out,
\* exc]. os.stat raises FileNotFoundError for a match that is not there
wild_step(root, wild_file, st_mode, acc) ==
    IF st_mode = "none" THEN [acc EXCEPT !.exc = "FileNotFoundError"]
    ELSE IF S_ISDIR(st_mode) THEN acc
    ELSE IF S_ISLNK(st_mode)
    THEN [acc EXCEPT !.out = Append(@, LinkLabel \o wild_file),
                     !.wild_links = @ \cup {wild_file}]
    ELSE IF S_ISCHR(st_mode) THEN acc
    ELSE IF S_ISBLK(st_mode) THEN acc
    ELSE IF ~S_ISREG(st_mode) THEN acc
    ELSE IF is_link_prefixed(acc.wild_links, wild_file) THEN acc
    ELSE IF root.type = "None"
    THEN [acc EXCEPT !.wild_set = @ \cup {wild_file}]
    ELSE [acc EXCEPT !.out = Append(@, AddLabel \o wild_file),
                     !.wild_set = @ \cup {relpath(wild_file, root.v)}]

\* the loop over wild_list
RECURSIVE wild_loop(_, _, _, _)
wild_loop(d, root, wild_list, acc) ==
    IF wild_list = <<>> \/ acc.exc # "none" THEN acc
    ELSE wild_loop(d, root, Tail(wild_list),
                   wild_step(root, Head(wild_list), lstat_mode(d, Head(wild_list)), acc))

\* files_set.update(wild_set), with the lines the loop printed; nothing
\* is added if the loop raised
add_wild(m, w) ==
    IF w.exc # "none" THEN [m EXCEPT !.out = w.out, !.exc = w.exc]
    ELSE [m EXCEPT !.files_set = @ \cup w.wild_set, !.out = w.out]

\* the body of the loop over subpaths once abs_subpath is set; m is
\* [prefixes, files_set, out, exc]
add_abs_subpath(d, order, root, subpath, abs_subpath, m) ==
    IF In(<<"*">>, [type |-> "str", v |-> subpath])
    THEN add_wild(m, wild_loop(d, root, glob(d, order, abs_subpath),
                               [wild_set |-> {}, wild_links |-> {}, out |-> m.out,
                                exc |-> "none"]))
    ELSE IF isdir(d, abs_subpath)
    THEN [m EXCEPT !.prefixes =
             Append(@, IF root.type = "None" THEN abs_subpath \o <<"/">>
                       ELSE subpath \o <<"/">>)]
    ELSE [m EXCEPT !.files_set =
             @ \cup {IF root.type = "None" THEN abs_subpath ELSE subpath}]

\* the body of the loop over subpaths
add_subpath(d, order, root, subpath, m) ==
    add_abs_subpath(d, order, root, subpath,
                    IF root.type = "None" THEN subpath ELSE Join(root.v, subpath), m)

RECURSIVE subpaths_loop(_, _, _, _, _)
subpaths_loop(d, order, root, list, m) ==
    IF list = <<>> \/ m.exc # "none" THEN m
    ELSE subpaths_loop(d, order, root, Tail(list),
                       add_subpath(d, order, root, Head(list), m))

\* os.path.realpath(os.path.abspath(root_dir)), for an absolute root_dir
\* none of whose components is a symbolic link
realpath_abspath(path) == Join(<<>>, JoinComponents(Components(path)))

\* root_dir after the first statement of __init__
resolved_root(given_root) ==
    IF given_root.type = "None" THEN given_root
    ELSE [type |-> "str", v |-> realpath_abspath(given_root.v)]

\* the fields __init__ sets from the loop's result m: files = list(files_set)
\* comes in the order the iteration of the set gives
new_matcher(m, order) ==
    [built |-> TRUE, prefixes |-> m.prefixes, files_set |-> m.files_set,
     files |-> Listing(m.files_set, order), out |-> m.out, exc |-> m.exc]

\* PathMatcher.__init__(root_dir, subpaths): the object's fields and the
\* lines printed; order is the order directory listings and the iteration
\* of files_set come back in
PathMatcher(d, order, given_root, given_subpaths) ==
    new_matcher(subpaths_loop(d, order, resolved_root(given_root),
                              subpaths_list(given_subpaths),
                              [prefixes |-> <<>>, files_set |-> {}, out |-> <<>>,
                               exc |-> "none"]),
                order)

\* a matches that looks at the exact paths alone
matches_exact_only(self, path) ==
    \E i \in 1..Len(self.files) : self.files[i] = path

\* PathMatcher.matches(path)
matches(self, path) ==
    \/ \E i \in 1..Len(self.prefixes) : startswith(path, self.prefixes[i])
    \/ \E i \in 1..Len(self.files) : self.files[i] = path

----------------------------------------------------------------------------
(* Specification SpecMatcher: a PathMatcher is built on a disk and asked.  *)

PatAB == <<"a", "/", "b">>
PatABSlash == <<"a", "/", "b", "/">>
PatABC == <<"a", "/", "b", "/", "c">>
PatABxC == <<"a", "/", "b", "x", "/", "c">>
PatXY == <<"x", "/", "y", ".", "t", "x", "t">>
PatXYBak == <<"x", "/", "y", ".", "t", "x", "t", ".", "b", "a", "k">>
PatXYSlashC == <<"x", "/", "y", ".", "t", "x", "t", "/", "c">>
PatSrcGlob == <<"s", "r", "c", "/", "*", "*", "/", "*", ".", "c">>
PatSrcStar == <<"s", "r", "c", "/", "*">>
PatSrcAll == <<"s", "r", "c", "/", "*", "*">>
PatAbsSrcGlob == <<"/", "r", "/", "s", "r", "c", "/", "*", "*", "/", "*", ".", "c">>
PatSrcAC == <<"s", "r", "c", "/", "a", ".", "c">>

NameA == <<"a">>
NameB == <<"b">>
NameBx == <<"b", "x">>
NameC == <<"c">>
NameX == <<"x">>
NameYTxt == <<"y", ".", "t", "x", "t">>
NameYTxtBak == <<"y", ".", "t", "x", "t", ".", "b", "a", "k">>
NameSrc == <<"s", "r", "c">>
NameAC == <<"a", ".", "c">>
NameBC == <<"b", ".", "c">>
NameFC == <<"f", ".", "c">>
NameCC == <<"c", ".", "c">>
NameSub == <<"s", "u", "b">>
NameReal == <<"r", "e", "a", "l">>
NameLink == <<"l", "i", "n", "k">>

File(dir, name, mode) == [dir |-> dir, name |-> name, mode |-> mode, target |-> <<>>]
Link(dir, name, target) == [dir |-> dir, name |-> name, mode |-> "lnk", target |-> target]

\* what can be at a/b: nothing, a directory holding c, a regular file, or a
\* symbolic link to the directory a/bx
DisksAB ==
    { {},
      {File(Dot, NameA, "dir"), File(NameA, NameB, "dir"), File(PatAB, NameC, "reg")},
      {File(Dot, NameA, "dir"), File(NameA, NameB, "reg")},
      {File(Dot, NameA, "dir"), Link(NameA, NameB, Join(RootDir, Join(NameA, NameBx)))} }

\* a/bx/c is there or not
DisksABx ==
    { {},
      {File(Dot, NameA, "dir"), File(NameA, NameBx, "dir"),
       File(Join(NameA, NameBx), NameC, "reg")} }

\* what can be at x/y.txt: nothing, a regular file, a regular file next to
\* y.txt.bak, or a directory holding c
DisksXY ==
    { {},
      {File(Dot, NameX, "dir"), File(NameX, NameYTxt, "reg")},
      {File(Dot, NameX, "dir"), File(NameX, NameYTxt, "reg"),
       File(NameX, NameYTxtBak, "reg")},
      {File(Dot, NameX, "dir"), File(NameX, NameYTxt, "dir"), File(PatXY, NameC, "reg")} }

\* what can be below src: nothing; a.c, b.c and sub/c.c; real/f.c and the
\* symbolic link link to the directory real
DisksSrc ==
    { {},
      {File(Dot, NameSrc, "dir"), File(NameSrc, NameAC, "reg"),
       File(NameSrc, NameBC, "reg"), File(NameSrc, NameSub, "dir"),
       File(Join(NameSrc, NameSub), NameCC, "reg")},
      {File(Dot, NameSrc, "dir"), File(NameSrc, NameReal, "dir"),
       File(Join(NameSrc, NameReal), NameFC, "reg"),
       Link(NameSrc, NameLink, Join(RootDir, Join(NameSrc, NameReal)))} }

MatcherDisks ==
    {ab \cup abx \cup xy \cup src :
        ab \in DisksAB, abx \in DisksABx, xy \in DisksXY, src \in DisksSrc}

Str(v) == [type |-> "str", v |-> v]

\* the root_dir values: None (from_abs_dir) and /r (from_rel_dir)
RootDirs == {[type |-> "None"], Str(RootDir)}

\* the subpaths values
Subpaths ==
    { [type |-> "None"], Str(PatABSlash), Str(PatAB), Str(PatXY), Str(PatSrcGlob),
      Str(PatSrcStar), Str(PatSrcAll), Str(PatAbsSrcGlob),
      [type |-> "list", v |-> <<PatABSlash, PatXY>>] }

\* the paths matches is asked about
QueryPaths == {PatABC, PatABxC, PatXY, PatXYBak, PatXYSlashC, PatSrcAC}

InitMatcher ==
    /\ fs = {}
    /\ exclude_file_names = DefaultExcludeFileNames
    /\ calls = <<>>
    /\ disk \in MatcherDisks
    /\ root_dir \in RootDirs
    /\ subpaths \in Subpaths
    /\ matcher = [built |-> FALSE]
    /\ stdout = <<>>
    /\ queries = <<>>
    /\ CleanupIdle

\* the object made is kept and the lines it printed are on stdout; no
\* object is made if __init__ raised
Built(made) ==
    /\ matcher' = IF made.exc # "none" THEN [built |-> FALSE, exc |-> made.exc]
                  ELSE [built |-> TRUE, prefixes |-> made.prefixes,
                        files_set |-> made.files_set, files |-> made.files]
    /\ stdout' = stdout \o made.out

\* PathMatcher(root_dir, subpaths)
Construct ==
    /\ matcher = [built |-> FALSE]
    /\ \E order \in ListingOrders : Built(PathMatcher(disk, order, root_dir, subpaths))
    /\ UNCHANGED <<disk, root_dir, subpaths, queries>>
    /\ UNCHANGED enumVars
    /\ UNCHANGED cleanupVars

\* matcher.matches(path)
Query ==
    /\ matcher.built
    /\ Len(queries) < MaxQueries
    /\ \E path \in QueryPaths :
         queries' = Append(queries, [path |-> path, answer |-> matches(matcher, path)])
    /\ UNCHANGED <<disk, root_dir, subpaths, matcher, stdout>>
    /\ UNCHANGED enumVars
    /\ UNCHANGED cleanupVars

NextMatcher == Construct \/ Query

SpecMatcher == InitMatcher /\ [][NextMatcher]_vars

----------------------------------------------------------------------------
(* cleanup-sources.py: the text of a file and fix_eol.                     *)

\* the characters fix_line tells apart; VT stands for '\x0b'
LF == "\n"
CR == "\r"
TAB == "\t"
FF == "\f"
VT == "VT"
Space == " "

\* ' \t\n\r\x0b'
EolWhitespace == {Space, TAB, LF, CR, VT}

\* ''.join(lines)
RECURSIVE JoinLines(_)
JoinLines(lines) ==
    IF lines = <<>> THEN <<>> ELSE Head(lines) \o JoinLines(Tail(lines))

\* the length of the first line of a non-empty text opened with newline='':
\* a line ends after '\n', after '\r\n' or after a '\r' alone, and the
\* terminator stays in the line
FirstLineLen(text) ==
    IF \A i \in 1..Len(text) : text[i] \notin {LF, CR} THEN Len(text)
    ELSE LET i == CHOOSE k \in 1..Len(text) :
                     /\ text[k] \in {LF, CR}
                     /\ \A j \in 1..(k - 1) : text[j] \notin {LF, CR}
         IN  IF text[i] = CR /\ i < Len(text) /\ text[i + 1] = LF THEN i + 1 ELSE i

\* for line in f, of a file opened with open(file_path, 'r', newline='')
RECURSIVE readlines(_)
readlines(text) ==
    IF text = <<>> THEN <<>>
    ELSE <<SubSeq(text, 1, FirstLineLen(text))>>
         \o readlines(SubSeq(text, FirstLineLen(text) + 1, Len(text)))

\* the loop of fix_line: the trailing whitespace goes
RECURSIVE rstrip_eol(_)
rstrip_eol(line) ==
    IF line # <<>> /\ line[Len(line)] \in EolWhitespace
    THEN rstrip_eol(SubSeq(line, 1, Len(line) - 1))
    ELSE line

\* a loop of fix_line that takes the form feed for whitespace too
RECURSIVE rstrip_eol_ff(_)
rstrip_eol_ff(line) ==
    IF line # <<>> /\ line[Len(line)] \in EolWhitespace \cup {FF}
    THEN rstrip_eol_ff(SubSeq(line, 1, Len(line) - 1))
    ELSE line

\* a fix_line that removes trailing form feeds too
fix_line_ff(line) == rstrip_eol_ff(line) \o <<LF>>

\* fix_eol.fix_line(line)
fix_line(line) == rstrip_eol(line) \o <<LF>>

\* the loop over the lines of the file: a line that ends in '\n' is fixed,
\* any other line is kept as it is
fix_lines(lines) ==
    [i \in 1..Len(lines) |->
        IF lines[i][Len(lines[i])] = LF THEN fix_line(lines[i]) ELSE lines[i]]

\* the last line is fixed if the loop did not fix it
fix_last(lines, fixed) ==
    IF lines # <<>> /\ lines[Len(lines)][Len(lines[Len(lines)])] # LF
    THEN SubSeq(fixed, 1, Len(fixed) - 1) \o <<fix_line(fixed[Len(fixed)])>>
    ELSE fixed

\* the text fix_eol writes for a file whose text is text
fix_eol_lines(lines) == JoinLines(fix_last(lines, fix_lines(lines)))

fix_eol_text(text) == fix_eol_lines(readlines(text))

----------------------------------------------------------------------------
(* cleanup-sources.py: the files of the project and what the tools the     *)
(* script runs say about them.                                             *)

\* what the bytes of a file are: text in UTF-8; text in another charset
\* that iconv converts; text of a corrupted or mixed encoding, which
\* neither decodes as UTF-8 nor converts; or no text
Encodings == {"utf-8", "iso-8859-1", "broken", "binary"}

\* file --mime -b full_path
file_mime(f) ==
    IF f.enc = "binary"
    THEN [mime_type |-> "application/octet-stream", charset |-> "binary"]
    ELSE [mime_type |-> "text/plain",
          charset |-> IF f.enc = "broken" THEN "unknown-8bit" ELSE f.enc]

\* is_text(mime_type, charset)
is_text(mime_type, charset) ==
    IF charset = "binary" THEN FALSE
    ELSE IF mime_type = "text/plain" THEN TRUE
    ELSE mime_type = "application/json"

\* reading the file as open(file_path, 'r') does raises UnicodeDecodeError
raises_UnicodeDecodeError(f) == f.enc # "utf-8"

\* iconv -f charset -t utf-8 file_path ends with a status that is not 0
iconv_fails(f) == f.enc \notin {"utf-8", "iso-8859-1"}

\* the mode bits: rw-r--r--, rwxr-xr-x, and the three execute bits
Mode644 == 420
Mode755 == 493
exe_perms == 73

\* n & ~exe_perms, bit by bit
Bit(n, k) == (n \div (2 ^ k)) % 2
without_exe_perms(n) == n - 64 * Bit(n, 6) - 8 * Bit(n, 3) - Bit(n, 0)

\* (exe_perms & st_mode) != 0
has_exe(st_mode) == Bit(st_mode, 6) + Bit(st_mode, 3) + Bit(st_mode, 0) # 0

\* the names of the project
NameK == <<"k">>
PyCache == <<"_", "_", "p", "y", "c", "a", "c", "h", "e", "_", "_">>
NameMPyc == <<"m", ".", "p", "y", "c">>
TmpCleanup == <<".", "t", "m", "p", ".", "c", "l", "e", "a", "n", "u", "p">>

\* the text every file of a project has unless said otherwise
PlainText == <<"a", " ", CR, LF>>

\* the regular file name of the project directory itself
Reg(name) == [dir |-> Dot, name |-> name, mode |-> "reg"]

\* the directory __pycache__ and the file in it
PyCacheTree ==
    { [dir |-> Dot, name |-> PyCache, mode |-> "dir"],
      [dir |-> PyCache, name |-> NameMPyc, mode |-> "reg"] }

\* the files a project can hold at its top: a.c, b.py and k
ProjectNames == {NameAC, BPy, NameK}

\* the projects: any of the three files, of any encoding, executable or
\* not, with or without a directory __pycache__
Projects ==
    UNION { [names -> [enc : Encodings, text : {PlainText}, st_mode : {Mode644, Mode755}]] :
            names \in SUBSET ProjectNames }

\* the data of the file in __pycache__
PycData == [enc |-> "binary", text |-> <<>>, st_mode |-> Mode644]

\* the tree and the data of project p
ProjectTree(p, cached) ==
    {Reg(name) : name \in DOMAIN p} \cup (IF cached THEN PyCacheTree ELSE {})

ProjectData(p, cached) ==
    [path \in DOMAIN p \cup (IF cached THEN {Join(PyCache, NameMPyc)} ELSE {}) |->
        IF path \in DOMAIN p THEN p[path] ELSE PycData]

----------------------------------------------------------------------------
(* cleanup-sources.py: main, step by step. The script is run on the        *)
(* project directory with no --root, --stat, --exeref or --verbose; of the *)
(* file --config names the model keeps the entries 'exe' and 'nonexe' (the *)
(* file has no 'ignore' and no 'exe_group'); of what the script prints the *)
(* model keeps the files print_broken lists.                               *)

\* how a run can end
Running == [kind |-> "none"]
Returns == [kind |-> "return"]
SysExit(status) == [kind |-> "exit", status |-> status]
Raises(exc) == [kind |-> "raise", exc |-> exc]

\* main before its first statement, in the first invocation of the script
Started ==
    [pc |-> "parse_args", check_broken_encodng |-> FALSE, files |-> <<>>,
     stat_file_list |-> <<>>, stat_text_list |-> <<>>, non_utf_list |-> <<>>,
     fixed_list |-> <<>>, unfixed_list |-> <<>>, broken_printed |-> <<>>,
     exit |-> Running, ops |-> {}, invocation |-> 1]

\* the run r ends
Ended(r, how) == [r EXCEPT !.pc = "done", !.exit = how]

\* the run r has done the filesystem operations kinds
Did(r, kinds) == [r EXCEPT !.ops = @ \cup kinds]

\* the list flags of parse_args
flags_of(a) ==
    (IF a.utf THEN <<"utf">> ELSE <<>>) \o (IF a.eol THEN <<"eol">> ELSE <<>>)
    \o (IF a.exe THEN <<"exe">> ELSE <<>>) \o (IF a.lic THEN <<"lic">> ELSE <<>>)
    \o (IF a.files.type # "None" THEN <<"files">> ELSE <<>>)

\* a parse_args that lets any flags through
parse_args_any(r, a, flags) ==
    [r EXCEPT !.check_broken_encodng = Len(flags) = 0,
              !.pc = IF a.files.type # "None" THEN "cleanup_files" ELSE "collect"]

\* parse_args, and on to `if not args.files is None`
parse_args(r, a, flags) ==
    IF Len(flags) > 1 THEN Ended(r, Raises("AttributeError"))
    ELSE [r EXCEPT !.check_broken_encodng = Len(flags) = 0,
                   !.pc = IF a.files.type # "None" THEN "cleanup_files" ELSE "collect"]

\* cleanup_files.scan_path over the sorted names of dir_path: the
\* directories named __pycache__ it deletes
RECURSIVE pycache_dirs(_, _, _)
pycache_dirs(os, dir_path, file_names) ==
    IF file_names = <<>> THEN {}
    ELSE (IF ~S_ISDIR(make_info(os, dir_path, Head(file_names)).st_mode) THEN {}
          ELSE IF Head(file_names) = PyCache
          THEN {make_info(os, dir_path, Head(file_names)).file_path}
          ELSE pycache_dirs(os, make_info(os, dir_path, Head(file_names)).file_path,
                            sorted(listdir(os, make_info(os, dir_path,
                                                         Head(file_names)).file_path).value)))
         \cup pycache_dirs(os, dir_path, Tail(file_names))

\* the entry e is the directory p or below it
IsBelow(e, dirs) ==
    \E p \in dirs : EntryPath(e) = p \/ startswith(EntryPath(e), p \o <<"/">>)

\* shutil.rmtree of each of dirs
rmtree(t, dirs) == {e \in t : ~IsBelow(e, dirs)}

\* the data of the regular files of tree t
DataOf(t, d) == [path \in {EntryPath(e) : e \in {x \in t : x.mode = "reg"}} |-> d[path]]

\* the steps main takes after scan_files, each with its condition
Dispatch == <<"find_non_utf", "check_broken_utf", "cleanup_utf", "cleanup_eol",
              "cleanup_exe">>

Taken(r, a, step) ==
    IF step = "find_non_utf" THEN r.check_broken_encodng \/ a.utf
    ELSE IF step = "check_broken_utf" THEN r.check_broken_encodng
    ELSE IF step = "cleanup_utf" THEN a.utf
    ELSE IF step = "cleanup_eol" THEN a.eol
    ELSE a.exe

\* the step main takes after the first k steps of Dispatch
RECURSIVE step_after(_, _, _)
step_after(r, a, k) ==
    IF k >= Len(Dispatch) THEN "done"
    ELSE IF Taken(r, a, Dispatch[k + 1]) THEN Dispatch[k + 1]
    ELSE step_after(r, a, k + 1)

\* main goes on after step k: it returns if no step is left
Goes(r, a, k) ==
    IF step_after(r, a, k) = "done" THEN Ended(r, Returns)
    ELSE [r EXCEPT !.pc = step_after(r, a, k)]

\* scan_mimes
scan_mimes(r, a) == r.check_broken_encodng \/ a.utf \/ a.eol

\* scan_files: is the file of these data put on stat_text_list
IsTextFile(f) == is_text(file_mime(f).mime_type, file_mime(f).charset)

\* scan_files: every file is stat'ed, and if scan_mimes the text files
\* that are not ignored (no file is, config has no 'ignore') are put on
\* stat_text_list
scan_files(r, a, d) ==
    [r EXCEPT !.stat_file_list = r.files,
              !.stat_text_list =
                  IF scan_mimes(r, a)
                  THEN SelectSeq(r.files, LAMBDA path : IsTextFile(d[path]))
                  ELSE <<>>,
              !.ops = @ \cup (IF r.files = <<>> THEN {}
                              ELSE IF scan_mimes(r, a) THEN {"stat", "read"}
                              ELSE {"stat"})]

\* find_non_utf: the text files check_utf8 raises UnicodeDecodeError for
find_non_utf(r, d) ==
    [r EXCEPT !.non_utf_list =
                  SelectSeq(r.stat_text_list,
                            LAMBDA path : raises_UnicodeDecodeError(d[path])),
              !.ops = @ \cup (IF r.stat_text_list = <<>> THEN {} ELSE {"read"})]

\* check_broken_utf: the files of non_utf_list iconv cannot convert into a
\* temporary file are printed and the run exits with 1
broken_list_of(r, d) == SelectSeq(r.non_utf_list, LAMBDA path : iconv_fails(d[path]))

check_broken_utf(r, a, d, broken_list) ==
    IF broken_list # <<>>
    THEN Ended([r EXCEPT !.broken_printed = broken_list, !.ops = @ \cup {"read"}],
               SysExit(1))
    ELSE Goes(Did(r, IF r.non_utf_list = <<>> THEN {} ELSE {"read"}), a, 2)

\* the file iconv made is renamed over path: the text is in UTF-8 now, and
\* the mode is the one of a new file
converted(d, path) ==
    [d EXCEPT ![path] = [enc |-> "utf-8", text |-> d[path].text, st_mode |-> Mode644]]

\* what iconv leaves at tmp_file_path when it fails, if it leaves a file
Leftover == [enc |-> "broken", text |-> <<>>, st_mode |-> Mode644]

with_leftover(w, path) ==
    [fs |-> w.fs \cup {Reg(path \o TmpCleanup)},
     data |-> [q \in DOMAIN w.data \cup {path \o TmpCleanup} |->
                  IF q \in DOMAIN w.data THEN w.data[q] ELSE Leftover],
     exc |-> "CalledProcessError", ops |-> w.ops \cup {"read", "write"}]

\* the loop of cleanup_utf over list; w is [fs, data, exc, ops]. iconv is
\* run with check=True: the first file it fails on ends the loop with
\* CalledProcessError, with a file at tmp_file_path if leftover
RECURSIVE cleanup_utf_loop(_, _, _)
cleanup_utf_loop(list, w, leftover) ==
    IF list = <<>> THEN w
    ELSE IF iconv_fails(w.data[Head(list)])
    THEN (IF leftover THEN with_leftover(w, Head(list))
          ELSE [w EXCEPT !.exc = "CalledProcessError", !.ops = @ \cup {"read"}])
    ELSE cleanup_utf_loop(Tail(list),
                          [w EXCEPT !.data = converted(@, Head(list)),
                                    !.ops = @ \cup {"read", "write", "rename"}],
                          leftover)

\* cleanup_utf
cleanup_utf(r, d, t, leftover) ==
    cleanup_utf_loop(r.non_utf_list,
                     [fs |-> t, data |-> d, exc |-> "none", ops |-> r.ops], leftover)

\* fix_eol of one file: the text is read and written back fixed
fixed_eol(d, path) == [d EXCEPT ![path].text = fix_eol_text(@)]

\* the loop of cleanup_eol over list; w is [data, fixed_list, unfixed_list,
\* broken_list, ops]. A file that does not decode raises UnicodeDecodeError
\* before it is written, and is put on broken_list
RECURSIVE cleanup_eol_loop(_, _)
cleanup_eol_loop(list, w) ==
    IF list = <<>> THEN w
    ELSE IF raises_UnicodeDecodeError(w.data[Head(list)])
    THEN cleanup_eol_loop(Tail(list),
                          [w EXCEPT !.broken_list = Append(@, Head(list)),
                                    !.ops = @ \cup {"read"}])
    ELSE IF fix_eol_text(w.data[Head(list)].text) # w.data[Head(list)].text
    THEN cleanup_eol_loop(Tail(list),
                          [w EXCEPT !.data = fixed_eol(@, Head(list)),
                                    !.fixed_list = Append(@, Head(list)),
                                    !.ops = @ \cup {"read", "write"}])
    ELSE cleanup_eol_loop(Tail(list),
                          [w EXCEPT !.unfixed_list = Append(@, Head(list)),
                                    !.ops = @ \cup {"read", "write"}])

\* cleanup_eol
cleanup_eol(r, d) ==
    cleanup_eol_loop(r.stat_text_list,
                     [data |-> d, fixed_list |-> <<>>, unfixed_list |-> r.unfixed_list,
                      broken_list |-> <<>>, ops |-> r.ops])

\* os.path.basename(path)
basename(path) == SubSeq(path, LastSlash(path) + 1, Len(path))

\* the index of the dot os.path.splitext splits file_name at: the last dot,
\* unless only dots come before it; 0 if there is none
ExtDot(file_name) ==
    IF \E i \in 1..Len(file_name) :
          file_name[i] = "." /\ \E j \in 1..(i - 1) : file_name[j] # "."
    THEN CHOOSE i \in 1..Len(file_name) :
            /\ file_name[i] = "."
            /\ \A j \in (i + 1)..Len(file_name) : file_name[j] # "."
    ELSE 0

\* os.path.splitext(file_name)[1]
splitext_ext(file_name) ==
    IF ExtDot(file_name) = 0 THEN <<>>
    ELSE SubSeq(file_name, ExtDot(file_name), Len(file_name))

\* str.lower()
LowerChar(c) ==
    IF c \in DOMAIN CodePoint /\ CodePoint[c] \in 65..90
       /\ \E x \in DOMAIN CodePoint : CodePoint[x] = CodePoint[c] + 32
    THEN CHOOSE x \in DOMAIN CodePoint : CodePoint[x] = CodePoint[c] + 32
    ELSE c
lower(s) == [i \in 1..Len(s) |-> LowerChar(s[i])]

\* of the lists of known_groups, the entries the names of the model meet
known_non_exe_suffixes == {<<"c">>, <<"h">>, <<"m", "d">>, <<"t", "x", "t">>}
known_non_exe_names == {Readme, <<"M", "a", "k", "e", "f", "i", "l", "e">>}
known_exe_suffixes == {<<"p", "y">>, <<"s", "h">>, <<"p", "l">>, <<"r", "b">>}

DotIn == <<".", "i", "n">>

\* file_name after `if ext == '.in'`
input_file_name(file_name) ==
    IF splitext_ext(file_name) = DotIn THEN SubSeq(file_name, 1, Len(file_name) - 3)
    ELSE file_name

\* PathMatcher(abs_path, project_root, paths) of cleanup-sources.py: paths
\* is None, a str or a list; a path ending in '/' is a prefix, any other an
\* exact path (no path of the model has a '*')
paths_list(paths) ==
    IF paths.type = "None" THEN <<>>
    ELSE IF paths.type # "list" THEN <<paths.v>>
    ELSE paths.v

endswith_slash(path) == path # <<>> /\ path[Len(path)] = "/"

make_path_matcher(paths) ==
    [prefixes |-> SelectSeq(paths_list(paths), endswith_slash),
     files |-> SelectSeq(paths_list(paths), LAMBDA path : ~endswith_slash(path))]

\* PathMatcher.matches(path) of cleanup-sources.py; the project is the
\* project root, so that project_path is path
path_matches(m, path) ==
    \/ \E i \in 1..Len(m.prefixes) : startswith(path, m.prefixes[i])
    \/ \E i \in 1..Len(m.files) : m.files[i] = path

\* the list cleanup_exe puts a file of exe_list on, from its name and ext,
\* when neither exe_matcher nor nonexe_matcher matches it: "known_non_exe",
\* "unknown_ext", "no_ext", or "exe" for none
exe_class_of(file_name, ext) ==
    IF file_name \in known_non_exe_names THEN "known_non_exe"
    ELSE IF ext = <<>> THEN "no_ext"
    ELSE IF lower(Tail(ext)) \in known_exe_suffixes THEN "exe"
    ELSE IF lower(Tail(ext)) \in known_non_exe_suffixes THEN "known_non_exe"
    ELSE "unknown_ext"

\* the list cleanup_exe puts the file path of exe_list on: "exe" for none
\* when exe_matcher matches it, "nonexe" when nonexe_matcher does
exe_class(config, path) ==
    IF path_matches(make_path_matcher(config.exe), path) THEN "exe"
    ELSE IF path_matches(make_path_matcher(config.nonexe), path) THEN "nonexe"
    ELSE exe_class_of(input_file_name(basename(path)),
                      splitext_ext(input_file_name(basename(path))))

\* fix_exe(file_infos): os.chmod(file_path, file_info.st_mode & ~exe_perms)
RECURSIVE fix_exe(_, _)
fix_exe(d, file_infos) ==
    IF file_infos = <<>> THEN d
    ELSE fix_exe([d EXCEPT ![Head(file_infos)].st_mode = without_exe_perms(@)],
                 Tail(file_infos))

\* the files of exe_list cleanup_exe puts on the list named class
classified(config, exe_list, class) ==
    SelectSeq(exe_list, LAMBDA path : exe_class(config, path) = class)

\* cleanup_exe once exe_list is made: with a file of unknown or no extension
\* the run exits with 1 before any chmod
\* cleanup_exe fixing the files before it looks at the unclear ones
cleanup_exe_lists_fix_first(r, d, nonexe_files, known_non_exe_files, unclear) ==
    [data |-> fix_exe(fix_exe(d, nonexe_files), known_non_exe_files),
     exit |-> IF unclear # <<>> THEN SysExit(1) ELSE Returns,
     ops |-> r.ops \cup (IF nonexe_files \o known_non_exe_files = <<>> THEN {}
                         ELSE {"chmod"})]

cleanup_exe_lists(r, d, nonexe_files, known_non_exe_files, unclear) ==
    IF unclear # <<>>
    THEN [data |-> d, exit |-> SysExit(1), ops |-> r.ops]
    ELSE [data |-> fix_exe(fix_exe(d, nonexe_files), known_non_exe_files),
          exit |-> Returns,
          ops |-> r.ops \cup (IF nonexe_files \o known_non_exe_files = <<>> THEN {}
                              ELSE {"chmod"})]

cleanup_exe_of(r, d, config, exe_list) ==
    cleanup_exe_lists(r, d, classified(config, exe_list, "nonexe"),
                      classified(config, exe_list, "known_non_exe"),
                      classified(config, exe_list, "unknown_ext")
                          \o classified(config, exe_list, "no_ext"))

\* cleanup_exe
cleanup_exe(r, d, config) ==
    cleanup_exe_of(r, d, config,
                   SelectSeq(r.stat_file_list, LAMBDA path : has_exe(d[path].st_mode)))

----------------------------------------------------------------------------
(* Specification SpecCleanup: one run of cleanup-sources.py on a project.  *)

\* the command lines: any of --utf, --eol, --exe and --lic, with or without
\* --files pycache or --files of an unknown mode
FilesModes == {[type |-> "None"], [type |-> "str", v |-> "pycache"],
               [type |-> "str", v |-> "bogus"]}

CommandLines ==
    [utf : BOOLEAN, eol : BOOLEAN, exe : BOOLEAN, lic : BOOLEAN, files : FilesModes,
     config : {NoConfig}]

\* utils is not called but by main
UtilsIdle ==
    /\ exclude_file_names = DefaultExcludeFileNames
    /\ calls = <<>>
    /\ MatcherIdle

InitCleanup ==
    /\ \E p \in Projects, cached \in BOOLEAN :
          /\ fs = ProjectTree(p, cached)
          /\ data = ProjectData(p, cached)
    /\ args \in CommandLines
    /\ run = Started
    /\ UtilsIdle

UtilsUnchanged ==
    UNCHANGED <<exclude_file_names, calls, disk, root_dir, subpaths, matcher, stdout,
                queries>>

\* parser.parse_known_args() and parse_args()
ParseArgs ==
    /\ run.pc = "parse_args"
    /\ run' = parse_args(run, args, flags_of(args))
    /\ UNCHANGED <<fs, data, args>>
    /\ UtilsUnchanged

\* the directories dirs are deleted and main returns
Deleted(dirs) ==
    /\ fs' = rmtree(fs, dirs)
    /\ data' = DataOf(rmtree(fs, dirs), data)
    /\ run' = Ended(Did(run, {"listdir", "stat"} \cup (IF dirs = {} THEN {} ELSE {"delete"})),
                    Returns)

\* cleanup_files() and return
CleanupFiles ==
    /\ run.pc = "cleanup_files"
    /\ IF args.files.v = "pycache"
       THEN \E order \in ListingOrders :
               Deleted(pycache_dirs([fs |-> fs, order |-> order, fault |-> NoFault], Dot,
                                    sorted(listdir([fs |-> fs, order |-> order,
                                                    fault |-> NoFault], Dot).value)))
       ELSE /\ run' = Ended(run, Raises("AttributeError"))
            /\ UNCHANGED <<fs, data>>
    /\ UNCHANGED args
    /\ UtilsUnchanged

\* files = utils.find_unique_paths(folder_path)
CollectFiles ==
    /\ run.pc = "collect"
    /\ \E order \in ListingOrders :
          run' = [Did(run, {"listdir"} \cup (IF fs = {} THEN {} ELSE {"stat"}))
                      EXCEPT !.files =
                                 find_unique_paths([fs |-> fs, order |-> order,
                                                    fault |-> NoFault],
                                                   DefaultExcludeFileNames).outcome.value,
                             !.pc = "scan_files"]
    /\ UNCHANGED <<fs, data, args>>
    /\ UtilsUnchanged

\* scan_files()
ScanFiles ==
    /\ run.pc = "scan_files"
    /\ run' = Goes(scan_files(run, args, data), args, 0)
    /\ UNCHANGED <<fs, data, args>>
    /\ UtilsUnchanged

\* find_non_utf()
FindNonUtf ==
    /\ run.pc = "find_non_utf"
    /\ run' = Goes(find_non_utf(run, data), args, 1)
    /\ UNCHANGED <<fs, data, args>>
    /\ UtilsUnchanged

\* check_broken_utf()
CheckBrokenUtf ==
    /\ run.pc = "check_broken_utf"
    /\ run' = check_broken_utf(run, args, data, broken_list_of(run, data))
    /\ UNCHANGED <<fs, data, args>>
    /\ UtilsUnchanged

\* the loop of cleanup_utf ended as w says
UtfDone(w) ==
    /\ fs' = w.fs
    /\ data' = w.data
    /\ run' = IF w.exc = "none" THEN Goes([run EXCEPT !.ops = w.ops], args, 3)
              ELSE Ended([run EXCEPT !.ops = w.ops], Raises(w.exc))

\* cleanup_utf()
CleanupUtf ==
    /\ run.pc = "cleanup_utf"
    /\ \E leftover \in BOOLEAN : UtfDone(cleanup_utf(run, data, fs, leftover))
    /\ UNCHANGED args
    /\ UtilsUnchanged

\* the lists of main after the loop of cleanup_eol ended as w says
eol_lists(r, w) ==
    [r EXCEPT !.fixed_list = w.fixed_list, !.unfixed_list = w.unfixed_list,
              !.ops = w.ops]

\* the loop of cleanup_eol ended as w says: the broken files are printed
\* and the run exits with 1 if there are any
EolDone(w) ==
    /\ data' = w.data
    /\ run' = IF w.broken_list # <<>>
              THEN Ended([eol_lists(run, w) EXCEPT !.broken_printed = w.broken_list],
                         SysExit(1))
              ELSE Goes(eol_lists(run, w), args, 4)

\* cleanup_eol()
CleanupEol ==
    /\ run.pc = "cleanup_eol"
    /\ EolDone(cleanup_eol(run, data))
    /\ UNCHANGED <<fs, args>>
    /\ UtilsUnchanged

\* cleanup_exe ended as w says
ExeDone(w) ==
    /\ data' = w.data
    /\ run' = IF w.exit = Returns THEN Goes([run EXCEPT !.ops = w.ops], args, 5)
              ELSE Ended([run EXCEPT !.ops = w.ops], w.exit)

\* cleanup_exe()
CleanupExe ==
    /\ run.pc = "cleanup_exe"
    /\ ExeDone(cleanup_exe(run, data, args.config))
    /\ UNCHANGED <<fs, args>>
    /\ UtilsUnchanged

NextCleanup ==
    \/ ParseArgs
    \/ CleanupFiles
    \/ CollectFiles
    \/ ScanFiles
    \/ FindNonUtf
    \/ CheckBrokenUtf
    \/ CleanupUtf
    \/ CleanupEol
    \/ CleanupExe

SpecCleanup == InitCleanup /\ [][NextCleanup]_vars

----------------------------------------------------------------------------
(* Specification SpecEol: cleanup-sources.py --eol on a project of one     *)
(* text file, of any text.                                                 *)

\* the characters of the texts
Alphabet == {"a", Space, LF, CR, FF}

Texts == UNION {[1..n -> Alphabet] : n \in 0..MaxTextLen}

EolOnly == [NoArgs EXCEPT !.eol = TRUE]

InitEol ==
    /\ fs = {Reg(NameAC)}
    /\ \E text \in Texts :
          data = [path \in {NameAC} |->
                     [enc |-> "utf-8", text |-> text, st_mode |-> Mode644]]
    /\ args = EolOnly
    /\ run = Started
    /\ UtilsIdle

NextEol == ParseArgs \/ CollectFiles \/ ScanFiles \/ CleanupEol

SpecEol == InitEol /\ [][NextEol]_vars

----------------------------------------------------------------------------
(* Specification SpecEolTwice: cleanup-sources.py --eol invoked again on   *)
(* the project the previous invocation has left.                           *)

\* the script is invoked again with the same command line after it returned
RunAgain ==
    /\ run.pc = "done"
    /\ run.exit = Returns
    /\ run.invocation < MaxRuns
    /\ run' = [Started EXCEPT !.invocation = run.invocation + 1]
    /\ UNCHANGED <<fs, data, args>>
    /\ UtilsUnchanged

NextEolTwice == NextEol \/ RunAgain

SpecEolTwice == InitEol /\ [][NextEolTwice]_vars

----------------------------------------------------------------------------
(* Specification SpecExe: cleanup-sources.py --exe on a project of files   *)
(* of any permissions, with any config of 'exe' and 'nonexe'.              *)

\* rwxrw-r--
Mode764 == 500

NameAZ == <<"a", ".", "z">>
PathSrcBPy == Join(NameSrc, BPy)
PrefixSrc == <<"s", "r", "c", "/">>

\* the files a project of SpecExe can hold: a.c, a.z and k at its top, and
\* src/b.py
ExePaths == {NameAC, NameAZ, NameK, PathSrcBPy}

ExeProjects ==
    UNION { [paths -> [enc : {"utf-8"}, text : {PlainText},
                       st_mode : {Mode644, Mode755, Mode764}]] :
            paths \in SUBSET ExePaths }

ExeTree(p) ==
    {Reg(name) : name \in DOMAIN p \ {PathSrcBPy}}
    \cup (IF PathSrcBPy \in DOMAIN p
          THEN { [dir |-> Dot, name |-> NameSrc, mode |-> "dir"],
                 [dir |-> NameSrc, name |-> BPy, mode |-> "reg"] }
          ELSE {})

\* the values of 'exe' and of 'nonexe' in the config file
ExeConfigs ==
    [exe : {[type |-> "None"], Str(NameK),
            [type |-> "list", v |-> <<NameAZ, PathSrcBPy>>]},
     nonexe : {[type |-> "None"], Str(NameAZ), Str(PrefixSrc),
               [type |-> "list", v |-> <<NameK, PrefixSrc>>]}]

InitExe ==
    /\ \E p \in ExeProjects :
          /\ fs = ExeTree(p)
          /\ data = p
    /\ \E config \in ExeConfigs : args = [NoArgs EXCEPT !.exe = TRUE, !.config = config]
    /\ run = Started
    /\ UtilsIdle

NextExe == ParseArgs \/ CollectFiles \/ ScanFiles \/ CleanupExe

SpecExe == InitExe /\ [][NextExe]_vars

----------------------------------------------------------------------------
(* no-first-comment-difftool.py: the detection of the leading comment of a *)
(* file. The file is opened in text mode with the default newline=None:    *)
(* '\n', '\r\n' and '\r' all end a line and are read as '\n'.              *)

\* the characters str.strip() removes
Whitespace == {Space, TAB, LF, CR, VT, FF}

\* the index of the first '\n' or '\r' of text, 0 if there is none
FirstBreak(text) ==
    IF \E i \in 1..Len(text) : text[i] \in {LF, CR}
    THEN CHOOSE i \in 1..Len(text) :
            text[i] \in {LF, CR} /\ \A j \in 1..(i - 1) : text[j] \notin {LF, CR}
    ELSE 0

\* the number of characters of the line break at index i of text
BreakLen(text, i) ==
    IF text[i] = CR /\ i < Len(text) /\ text[i + 1] = LF THEN 2 ELSE 1

\* `for line in input_file`: the lines of text, each line break read as '\n'
RECURSIVE text_lines(_)
text_lines(text) ==
    IF text = <<>> THEN <<>>
    ELSE IF FirstBreak(text) = 0 THEN <<text>>
    ELSE <<Append(SubSeq(text, 1, FirstBreak(text) - 1), LF)>>
         \o text_lines(SubSeq(text, FirstBreak(text) + BreakLen(text, FirstBreak(text)),
                              Len(text)))

\* str.strip()
RECURSIVE lstrip(_)
lstrip(s) == IF s # <<>> /\ Head(s) \in Whitespace THEN lstrip(Tail(s)) ELSE s

RECURSIVE rstrip(_)
rstrip(s) ==
    IF s # <<>> /\ s[Len(s)] \in Whitespace THEN rstrip(SubSeq(s, 1, Len(s) - 1)) ELSE s

strip(s) == lstrip(rstrip(s))

\* str.index(sub), counted from 0; -1 stands for ValueError
index(s, sub) ==
    IF \E i \in 1..(Len(s) - Len(sub) + 1) : SubSeq(s, i, i + Len(sub) - 1) = sub
    THEN (CHOOSE i \in 1..(Len(s) - Len(sub) + 1) :
             /\ SubSeq(s, i, i + Len(sub) - 1) = sub
             /\ \A j \in 1..(i - 1) : SubSeq(s, j, j + Len(sub) - 1) # sub) - 1
    ELSE -1

Hash == <<"#">>
SlashSlash == <<"/", "/">>
SlashStar == <<"/", "*">>
StarSlash == <<"*", "/">>

\* detect_comment_mode on the lines of a file that decodes
RECURSIVE detect_comment_mode(_)
detect_comment_mode(lines) ==
    IF lines = <<>> THEN 0
    ELSE IF Len(strip(Head(lines))) = 0 THEN detect_comment_mode(Tail(lines))
    ELSE IF startswith(strip(Head(lines)), Hash) THEN 1
    ELSE IF startswith(strip(Head(lines)), SlashSlash) THEN 2
    ELSE IF startswith(strip(Head(lines)), SlashStar) THEN 3
    ELSE 0

\* the loop of detect_oneline_comment_n; c is [n, lb, lbn]
RECURSIVE oneline_loop(_, _, _, _)
oneline_loop(lines, prefix, max_line_breaks, c) ==
    IF lines = <<>> THEN c.n
    ELSE IF Len(strip(Head(lines))) = 0
    THEN IF c.lbn = 0
         THEN IF c.lb = max_line_breaks THEN c.n
              ELSE oneline_loop(Tail(lines), prefix, max_line_breaks,
                                [c EXCEPT !.lb = @ + 1, !.lbn = @ + 1])
         ELSE oneline_loop(Tail(lines), prefix, max_line_breaks, [c EXCEPT !.lbn = @ + 1])
    ELSE IF ~startswith(strip(Head(lines)), prefix) THEN c.n
    ELSE oneline_loop(Tail(lines), prefix, max_line_breaks,
                      [c EXCEPT !.n = @ + c.lbn + 1, !.lbn = 0])

detect_oneline_comment_n(lines, prefix, max_line_breaks) ==
    oneline_loop(lines, prefix, max_line_breaks, [n |-> 0, lb |-> 0, lbn |-> 0])

detect_shell_comment_n(lines) == detect_oneline_comment_n(lines, Hash, 1)

detect_oneline_c_comment_n(lines) == detect_oneline_comment_n(lines, SlashSlash, 1)

\* find_begin(line) and find_end(line): "True", "False", or "AttributeError"
find_begin(line) ==
    IF index(line, SlashStar) = -1 THEN "False"
    ELSE IF index(line, SlashStar) # 0 THEN "AttributeError"
    ELSE "True"

\* find_end taking a '*/' anywhere in the line
find_end_anywhere(line) ==
    IF index(line, StarSlash) = -1 THEN "False" ELSE "True"

find_end(line) ==
    IF index(line, StarSlash) = -1 THEN "False"
    ELSE IF index(line, StarSlash) # Len(line) - 2 THEN "AttributeError"
    ELSE "True"

\* the line without its first two characters: line[2:]
From2(line) == SubSeq(line, 3, Len(line))

\* the loop of detect_multiline_c_comment_n; c is [n, has_begin, has_end,
\* exc]
RECURSIVE multiline_loop(_, _)
multiline_loop(lines, c) ==
    IF lines = <<>> THEN c
    ELSE IF c.has_begin
    THEN IF find_end(strip(Head(lines))) = "AttributeError"
         THEN [c EXCEPT !.n = @ + 1, !.exc = "AttributeError"]
         ELSE IF find_end(strip(Head(lines))) = "False"
         THEN multiline_loop(Tail(lines), [c EXCEPT !.n = @ + 1])
         ELSE [c EXCEPT !.n = @ + 1, !.has_end = TRUE]
    ELSE IF Len(strip(Head(lines))) = 0
    THEN multiline_loop(Tail(lines), [c EXCEPT !.n = @ + 1])
    ELSE IF find_begin(strip(Head(lines))) = "AttributeError"
    THEN [c EXCEPT !.exc = "AttributeError"]
    ELSE IF find_begin(strip(Head(lines))) = "False" THEN c
    ELSE IF find_end(From2(strip(Head(lines)))) = "AttributeError"
    THEN [c EXCEPT !.n = @ + 1, !.has_begin = TRUE, !.exc = "AttributeError"]
    ELSE IF find_end(From2(strip(Head(lines)))) = "True"
    THEN [c EXCEPT !.n = @ + 1, !.has_begin = TRUE, !.has_end = TRUE]
    ELSE multiline_loop(Tail(lines), [c EXCEPT !.n = @ + 1, !.has_begin = TRUE])

\* what detect_multiline_c_comment_n returns when its loop ended as c: 0 for
\* the AttributeError raised in the loop or for a comment without begin or
\* end
multiline_result(c) ==
    IF c.exc # "none" \/ ~c.has_begin \/ ~c.has_end THEN 0 ELSE c.n

detect_multiline_c_comment_n(lines) ==
    multiline_result(multiline_loop(lines, [n |-> 0, has_begin |-> FALSE,
                                            has_end |-> FALSE, exc |-> "none"]))

\* detect_comment_n once the mode is known
detect_comment_n_of(mode, lines) ==
    IF mode = 0 THEN 0
    ELSE IF mode = 1 THEN detect_shell_comment_n(lines)
    ELSE IF mode = 2 THEN detect_oneline_c_comment_n(lines)
    ELSE detect_multiline_c_comment_n(lines)

\* detect_comment_n(path, input_file) for the file of text text; a file that
\* does not decode raises UnicodeDecodeError in detect_comment_mode, which
\* returns 0
detect_comment_n(file) ==
    IF raises_UnicodeDecodeError(file) THEN 0
    ELSE detect_comment_n_of(detect_comment_mode(text_lines(file.text)),
                             text_lines(file.text))

----------------------------------------------------------------------------
(* no-first-comment-difftool.py --convert: convert_all, file by file. In   *)
(* the specifications of convert_all `args` is the argument of --convert   *)
(* and the current working directory of the process, `data` the regular    *)
(* files of the whole filesystem by absolute path, `fs` the tree below     *)
(* real_dir, and `run` the position of convert_all, the paths it has still *)
(* to convert, what detect_comment_n returned for the files it opened, the *)
(* files it opened and the files it wrote, removed or renamed.             *)

\* remove_file_prefix: the lines left after remove_n lines are read
skip_lines(lines, remove_n) ==
    IF remove_n >= Len(lines) THEN <<>> ELSE SubSeq(lines, remove_n + 1, Len(lines))

\* remove_file_prefix(path, input_file, output_file, remove_n, add_n): what
\* is written to output_file for the input of text text
remove_file_prefix(text, remove_n, add_n) ==
    JoinLines([i \in 1..add_n |-> <<LF>>] \o skip_lines(text_lines(text), remove_n))

TmpNoFirstComment ==
    <<".", "t", "m", "p", "-", "n", "o", "-", "f", "i", "r", "s", "t", "-",
      "c", "o", "m", "m", "e", "n", "t">>

\* the file the OS opens for path in a process of working directory cwd
resolve_path(cwd, path) == IF path = Dot THEN cwd ELSE ospath_join(cwd, path)

\* os.path.isfile(path)
isfile(d, cwd, path) == resolve_path(cwd, path) \in DOMAIN d

\* the entries of the tree below dir that the file of path rel below dir
\* makes: its directories and itself
EntriesOf(comps) ==
    { [dir |-> IF i = 1 THEN Dot ELSE JoinComponents(SubSeq(comps, 1, i - 1)),
       name |-> comps[i],
       mode |-> IF i = Len(comps) THEN "reg" ELSE "dir"] : i \in 1..Len(comps) }

\* the tree below the directory dir of the filesystem of files d
TreeBelow(d, dir) ==
    UNION { EntriesOf(Components(SubSeq(path, Len(dir) + 2, Len(path)))) :
            path \in {p \in DOMAIN d : startswith(p, Append(dir, "/"))} }

\* convert_all before its first statement
ConvertStarted ==
    [pc |-> "convert_all", all_paths |-> <<>>, detected |-> <<>>, opened |-> {},
     written |-> {}, exit |-> Running]

\* the loop of convert_all goes on with the paths rest, or convert_all
\* returns
NextPath(r, rest) ==
    IF rest = <<>> THEN Ended([r EXCEPT !.all_paths = <<>>], Returns)
    ELSE [r EXCEPT !.pc = "loop", !.all_paths = rest]

\* all_paths of convert_all(root_dir)
all_paths_of(d, tree, order, cwd, root_dir_arg) ==
    IF isfile(d, cwd, root_dir_arg) THEN <<resolve_path(cwd, root_dir_arg)>>
    ELSE find_unique_paths([fs |-> tree, order |-> order, fault |-> NoFault],
                           ConvertAllExclude).outcome.value

\* convert_all up to its loop
ConvertAllPaths ==
    /\ run.pc = "convert_all"
    /\ \E order \in ListingOrders :
          run' = NextPath(run, all_paths_of(data, fs, order, args.cwd, args.convert))
    /\ UNCHANGED <<fs, data, args>>
    /\ UtilsUnchanged

\* the body of the loop of convert_all for the file that open(path) opened,
\* file_path, with n what detect_comment_n returns for it
converted_file(r, file_path, text, n) ==
    [r EXCEPT !.detected = Append(@, [path |-> file_path, text |-> text, n |-> n]),
              !.opened = @ \cup {file_path},
              !.written = @ \cup (IF n = 0 THEN {}
                                  ELSE {file_path, file_path \o TmpNoFirstComment})]

ConvertedFile(file_path, n) ==
    /\ run' = NextPath(converted_file(run, file_path, data[file_path].text, n),
                       Tail(run.all_paths))
    /\ data' = IF n = 0 THEN data
               ELSE [data EXCEPT ![file_path].text = remove_file_prefix(@, n, 0)]

\* one turn of the loop of convert_all: open(path) raises FileNotFoundError
\* when there is no such file
ConvertFile ==
    /\ run.pc = "loop"
    /\ IF resolve_path(args.cwd, Head(run.all_paths)) \in DOMAIN data
       THEN ConvertedFile(resolve_path(args.cwd, Head(run.all_paths)),
                          detect_comment_n(data[resolve_path(args.cwd, Head(run.all_paths))]))
       ELSE /\ run' = Ended(run, Raises("FileNotFoundError"))
            /\ data' = data
    /\ UNCHANGED <<fs, args>>
    /\ UtilsUnchanged

NextConvert == ConvertAllPaths \/ ConvertFile

----------------------------------------------------------------------------
(* Specification SpecDetect: --convert on a directory of one file, of any  *)
(* content made of up to MaxLines lines.                                   *)

\* the lines of the files, without their line break
LineShapes ==
    { <<>>, <<Space>>, <<"a">>, <<"#">>, <<Space, "#", "a">>, <<"/", "/">>,
      <<"/", "*">>, <<"*", "/">>, <<"/", "*", "*", "/">>, <<"a", "*", "/">>,
      <<"*", "/", "a">>, <<"a", "/", "*">>, <<"/", "*", "/">> }

\* the texts of the lines lines, each ended by eol but the last when open
FileText(lines, eol, open) ==
    JoinLines([i \in 1..Len(lines) |->
                  IF i = Len(lines) /\ open THEN lines[i] ELSE lines[i] \o eol])

DetectTexts ==
    { FileText(lines, eol, open) :
        lines \in UNION {[1..k -> LineShapes] : k \in 0..MaxLines},
        eol \in {<<LF>>, <<CR, LF>>}, open \in BOOLEAN }

PathRAC == Join(RootDir, NameAC)

InitDetect ==
    /\ \E text \in DetectTexts :
          data = [path \in {PathRAC} |->
                     [enc |-> "utf-8", text |-> text, st_mode |-> Mode644]]
    /\ fs = TreeBelow(data, RootDir)
    /\ args = [convert |-> RootDir, cwd |-> RootDir]
    /\ run = ConvertStarted
    /\ UtilsIdle

SpecDetect == InitDetect /\ [][NextConvert]_vars

----------------------------------------------------------------------------
(* Specification SpecConvert: --convert with root_dir absolute, '.' or a   *)
(* file, run in root_dir or in another directory that has files of its     *)
(* own.                                                                    *)

WorkDir == <<"/", "w">>

\* a file that begins with a comment line, and one that does not
CommentText == <<"#", "a", LF, "a", LF>>
CodeText == <<"a", LF>>

\* the files of the filesystem: a.c, lib/a.py and .git/config below /r, and
\* a.c and lib/a.py below /w
ConvertPaths ==
    { Join(RootDir, NameAC), Join(RootDir, Join(Lib, APy)),
      Join(RootDir, Join(DotGit, Config)),
      Join(WorkDir, NameAC), Join(WorkDir, Join(Lib, APy)) }

ConvertDisks ==
    UNION { [paths -> [enc : {"utf-8"}, text : {CommentText, CodeText},
                       st_mode : {Mode644}]] :
            paths \in SUBSET ConvertPaths }

InitConvert ==
    /\ data \in ConvertDisks
    /\ \E dir \in {RootDir, Dot, PathRAC}, cwd \in {RootDir, WorkDir} :
          /\ dir = PathRAC => PathRAC \in DOMAIN data
          /\ args = [convert |-> dir, cwd |-> cwd]
          /\ fs = TreeBelow(data, resolve_path(cwd, dir))
    /\ run = ConvertStarted
    /\ UtilsIdle

SpecConvert == InitConvert /\ [][NextConvert]_vars

----------------------------------------------------------------------------
(* What the claims speak of.                                               *)

\* entry a is entry e or a directory above it
IsOnPathOf(a, e) ==
    \/ a = e
    \/ startswith(EntryPath(e), EntryPath(a) \o <<"/">>)

\* the entry of path p
EntryAt(p) == CHOOSE e \in fs : EntryPath(e) = p

\* how many times p occurs in list
Count(list, p) == Cardinality({i \in 1..Len(list) : list[i] = p})

\* the calls that returned
Returned == {i \in 1..Len(calls) : calls[i].outcome.kind = "return"}

\* entry e lies in a subdirectory of directory d (d spelled as scan_path does)
InSubdirOf(e, d) ==
    \E sub \in fs : sub.dir = d /\ sub.mode = "dir" /\ e # sub /\ IsOnPathOf(sub, e)

\* the name of the subdirectory of d that holds e
SubdirName(e, d) ==
    (CHOOSE sub \in fs : sub.dir = d /\ sub.mode = "dir" /\ e # sub /\ IsOnPathOf(sub, e)).name

\* the names exclude_file_names configures, each taken as one whole name
ConfiguredNames(exclude) ==
    IF exclude.type = "list" THEN {exclude.v[i] : i \in 1..Len(exclude.v)}
    ELSE {exclude.v}

\* C1: a returned list holds no path whose base name is in the exclusion
\* set, no path under a directory whose name is in it, and no symbolic link,
\* character device or block device: every entry is a regular file.
C1_NoExcludedNoSpecial ==
    \A c \in Returned : \A i \in 1..Len(calls[c].outcome.value) :
        LET p == calls[c].outcome.value[i]
        IN  /\ \E e \in fs : EntryPath(e) = p
            /\ EntryAt(p).mode = "reg"
            /\ \A a \in fs : IsOnPathOf(a, EntryAt(p)) => ~In(a.name, exclude_file_names)

C1_Witness ==
    /\ exclude_file_names.type = "list"
    /\ \E c \in Returned :
        /\ calls[c].outcome.value # <<>>
        /\ \E e \in fs : e.mode = "reg" /\ In(e.name, exclude_file_names)
        /\ \E e \in fs : e.mode \in {"lnk", "chr", "blk"}
                         /\ ~In(e.name, exclude_file_names)

\* C2 as claimed: with the default exclusions every regular file reached
\* through directories none of which is excluded by name appears exactly
\* once in the returned list.
C2_Original ==
    exclude_file_names = DefaultExcludeFileNames =>
        \A c \in Returned : \A e \in fs :
            ( /\ e.mode = "reg"
              /\ \A a \in fs \ {e} : IsOnPathOf(a, e) => ~In(a.name, exclude_file_names) )
            => Count(calls[c].outcome.value, EntryPath(e)) = 1

\* C2 amended: every regular file whose own name is not excluded and which
\* is reached through directories none of which is excluded by name appears
\* exactly once in the returned list.
C2_EveryFileOnce ==
    \A c \in Returned : \A e \in fs :
        ( /\ e.mode = "reg"
          /\ \A a \in fs : IsOnPathOf(a, e) => ~In(a.name, exclude_file_names) )
        => Count(calls[c].outcome.value, EntryPath(e)) = 1

C2_Witness ==
    \E c \in Returned : \E e, d \in fs :
        /\ e.mode = "reg" /\ d.mode = "dir" /\ e.dir = EntryPath(d)
        /\ Count(calls[c].outcome.value, EntryPath(e)) = 1
        /\ Len(calls[c].outcome.value) >= 2

\* C3: in a returned list, for every directory D visited, the files in the
\* subdirectories of D come before the direct files of D, the subdirectories
\* of D come in the order of their names, and so do the direct files of D.
C3_DepthFirstThenLocal ==
    \A c \in Returned :
        LET out == calls[c].outcome.value
        IN  \A i, j \in 1..Len(out) : \A d \in DirPaths(fs) :
                LET ei == EntryAt(out[i])
                    ej == EntryAt(out[j])
                IN  /\ (InSubdirOf(ei, d) /\ ej.dir = d) => i < j
                    /\ (ei.dir = d /\ ej.dir = d /\ StrLess(ei.name, ej.name)) => i < j
                    /\ ( /\ InSubdirOf(ei, d) /\ InSubdirOf(ej, d)
                         /\ StrLess(SubdirName(ei, d), SubdirName(ej, d)) ) => i < j

C3_Witness ==
    \E c \in Returned :
        LET out == calls[c].outcome.value
        IN  /\ calls[c].order # "asc"
            /\ \E i, j \in 1..Len(out) :
                /\ i < j
                /\ InSubdirOf(EntryAt(out[i]), Dot)
                /\ EntryAt(out[j]).dir = Dot
                /\ StrLess(out[j], out[i])

LibAPy == Join(Lib, APy)
LibBPy == Join(Lib, BPy)

\* C4 as claimed: on the scenario tree with the default exclusions the call
\* returns README, lib/a.py, lib/b.py in that order.
C4_Original ==
    (fs = ScenarioTree /\ exclude_file_names = DefaultExcludeFileNames) =>
        \A c \in Returned : calls[c].outcome.value = <<Readme, LibAPy, LibBPy>>

\* C4 amended: on the scenario tree with the default exclusions the call
\* returns lib/a.py, lib/b.py, README in that order, nothing from .git.
C4_Scenario ==
    (fs = ScenarioTree /\ exclude_file_names = DefaultExcludeFileNames) =>
        \A c \in Returned : calls[c].outcome.value = <<LibAPy, LibBPy, Readme>>

C4_Witness ==
    /\ fs = ScenarioTree
    /\ exclude_file_names = DefaultExcludeFileNames
    /\ \E c \in Returned : calls[c].order = "desc"

\* C5: for the exclusion values the callers pass (the default ['.git'] and
\* the '.git/' of convert_all) a regular file below directories that are not
\* dropped is dropped if and only if its whole name equals one of the
\* configured exclusion names.
C5_FullNameEquality ==
    exclude_file_names \in {DefaultExcludeFileNames, ConvertAllExclude} =>
        \A c \in Returned : \A e \in fs :
            ( /\ e.mode = "reg"
              /\ \A a \in fs \ {e} :
                    IsOnPathOf(a, e) => a.name \notin ConfiguredNames(exclude_file_names) )
            => ( Count(calls[c].outcome.value, EntryPath(e)) = 0
                 <=> e.name \in ConfiguredNames(exclude_file_names) )

\* C6: two calls on the same tree that return, return the same list, in
\* whatever order the directory listings came back.
C6_Deterministic ==
    \A c, d \in Returned : calls[c].outcome.value = calls[d].outcome.value

C6_Witness ==
    \E c, d \in Returned :
        /\ calls[c].order # calls[d].order
        /\ Len(calls[c].outcome.value) >= 2
        /\ \E x, y \in fs : x # y /\ x.dir = y.dir /\ x.mode = "reg" /\ y.mode = "reg"
                            /\ Count(calls[c].outcome.value, EntryPath(x)) = 1
                            /\ Count(calls[c].outcome.value, EntryPath(y)) = 1

\* the failing filesystem call f is made during a call of find_unique_paths:
\* the listing of the root or of a directory that is scanned, or the stat of
\* an entry of such a directory whose name is not excluded
FaultIsHit(f) ==
    \/ f.op = "listdir" /\ f.path = Dot
    \/ \E e \in fs :
         /\ EntryPath(e) = f.path
         /\ f.op = "listdir" => e.mode = "dir"
         /\ \A a \in fs : IsOnPathOf(a, e) => ~In(a.name, exclude_file_names)

\* C7: when a listdir or stat made during the call fails, the caller gets
\* that error and no list, whatever paths had been collected.
C7_ErrorPropagates ==
    \A c \in 1..Len(calls) :
        FaultIsHit(calls[c].fault) => calls[c].outcome = Raise(calls[c].fault.errno)

C7_Witness ==
    \E c \in 1..Len(calls) :
        /\ FaultIsHit(calls[c].fault)
        /\ calls[c].paths # <<>>
        /\ calls[c].outcome.kind = "raise"

\* the matcher was built from the single pattern pat, given as a str or as
\* a list of one str
BuiltFrom(pat) ==
    /\ matcher.built
    /\ subpaths_list(subpaths) = <<pat>>

\* the answer matches gave for path in every query made so far
Answered(path, answer) ==
    \A q \in 1..Len(queries) : queries[q].path = path => queries[q].answer = answer

\* C8: a matcher built from the single pattern "a/b/", with a root or
\* without, whatever is on disk, answers true for "a/b/c" and false for
\* "a/bx/c".
C8_DirectoryPrefixLaw ==
    BuiltFrom(PatABSlash) => (Answered(PatABC, TRUE) /\ Answered(PatABxC, FALSE))

\* C9: a single pattern is classified by its text alone: ending in '/' it is
\* stored as a directory prefix, holding '*' it is expanded as a glob (no
\* prefix is stored), anything else is stored as one exact path.
C9_ClassifiedByText ==
    \A pat \in {PatABSlash, PatAB, PatXY, PatSrcGlob, PatSrcStar} :
        BuiltFrom(pat) =>
            IF pat[Len(pat)] = "/"
            THEN matcher.prefixes = <<pat>> /\ matcher.files_set = {}
            ELSE IF \E i \in 1..Len(pat) : pat[i] = "*"
            THEN matcher.prefixes = <<>>
            ELSE matcher.prefixes = <<>> /\ matcher.files_set = {pat}

\* C10: a matcher built with no root from the single pattern "x/y.txt"
\* answers true for "x/y.txt" and false for "x/y.txt.bak".
C10_ExactLaw ==
    (root_dir.type = "None" /\ BuiltFrom(PatXY)) =>
        (Answered(PatXY, TRUE) /\ Answered(PatXYBak, FALSE))


\* src/real/f.c is there and src/link is a symbolic link to the directory
\* src/real
LinkFixture ==
    /\ File(Join(NameSrc, NameReal), NameFC, "reg") \in disk
    /\ Link(NameSrc, NameLink, Join(RootDir, Join(NameSrc, NameReal))) \in disk

PathRealFC == Join(NameSrc, Join(NameReal, NameFC))
PathLinkFC == Join(NameSrc, Join(NameLink, NameFC))

\* C11: with src/link a symbolic link to the directory src/real and
\* src/real/f.c there, a matcher built from the glob "src/**/*.c" does not
\* hold both src/real/f.c and src/link/f.c: the file reached through the
\* link is not added.
C11_NoSymlinkDuplicate ==
    (LinkFixture /\ BuiltFrom(PatSrcGlob)) =>
        /\ PathLinkFC \notin matcher.files_set
        /\ ~(PathRealFC \in matcher.files_set /\ PathLinkFC \in matcher.files_set)


\* the fixture whose only files are src/a.c, src/b.c and src/sub/c.c
SrcFixture ==
    {File(Dot, NameSrc, "dir"), File(NameSrc, NameAC, "reg"),
     File(NameSrc, NameBC, "reg"), File(NameSrc, NameSub, "dir"),
     File(Join(NameSrc, NameSub), NameCC, "reg")}

\* the three files of the fixture, relative to the root
SrcFiles ==
    {Join(NameSrc, NameAC), Join(NameSrc, NameBC), Join(NameSrc, Join(NameSub, NameCC))}

\* C12: on the fixture whose only files are src/a.c, src/b.c and
\* src/sub/c.c, a matcher built from the glob "src/**/*.c" holds exactly
\* these three files and no prefix: relative to the root when a root is
\* given, and as the glob spells them when there is none (absolute for the
\* absolute pattern "/r/src/**/*.c").
C12_GlobLaw ==
    (matcher.built /\ disk = SrcFixture) =>
        /\ subpaths = Str(PatSrcGlob) =>
              matcher.files_set = SrcFiles /\ matcher.prefixes = <<>>
        /\ (subpaths = Str(PatAbsSrcGlob) /\ root_dir.type = "None") =>
              /\ matcher.files_set = {Join(RootDir, f) : f \in SrcFiles}
              /\ matcher.prefixes = <<>>

C12_Witness ==
    /\ matcher.built
    /\ disk = SrcFixture
    /\ subpaths = Str(PatSrcGlob)
    /\ root_dir.type = "str"
    /\ Cardinality(matcher.files_set) = 3
    /\ Join(NameSrc, Join(NameSub, NameCC)) \in matcher.files_set


\* every answer given so far is true exactly if the path starts with a
\* stored prefix or is in the exact-path set, and is a boolean (no error)
AnswersRight ==
    \A q \in 1..Len(queries) :
        /\ queries[q].answer \in BOOLEAN
        /\ queries[q].answer =
              (\/ \E i \in 1..Len(matcher.prefixes) :
                     startswith(queries[q].path, matcher.prefixes[i])
               \/ queries[q].path \in matcher.files_set)

\* the same query always got the same answer
AnswersRepeat ==
    \A p, q \in 1..Len(queries) :
        queries[p].path = queries[q].path => queries[p].answer = queries[q].answer

\* C13: matches(path) is true if and only if path starts with a stored
\* prefix or is in the exact-path set; it raises nothing, leaves the
\* prefixes and the exact-path set of the matcher as they are, and the same
\* query always gets the same answer.
C13_QueryContract ==
    /\ [](AnswersRight /\ AnswersRepeat)
    /\ [][matcher.built => matcher' = matcher]_vars

C13_Witness ==
    /\ Len(queries) = 2
    /\ queries[1].path = queries[2].path
    /\ queries[1].answer
    /\ matcher.prefixes # <<>>
    /\ matcher.files_set # {}


\* C14: constructing a PathMatcher writes nothing to standard output,
\* whatever the patterns are and whatever the glob meets.
C14_NoOutput == matcher.built => stdout = <<>>


\* the fields of the matcher PathMatcher(root_dir, given) makes on the disk
FieldsOf(made) ==
    [built |-> TRUE, prefixes |-> made.prefixes,
     files_set |-> made.files_set, files |-> made.files]

\* C15: a None pattern list makes a matcher with no prefix and no exact
\* path, which answers false to every query; a single pattern P that is not
\* a list makes the matcher the one-element list [P] makes.
C15_Normalisation ==
    matcher.built =>
        /\ subpaths.type = "None" =>
              /\ matcher.prefixes = <<>>
              /\ matcher.files_set = {}
              /\ matcher.files = <<>>
              /\ \A q \in 1..Len(queries) : queries[q].answer = FALSE
        /\ subpaths.type = "str" =>
              \E order \in ListingOrders :
                  matcher = FieldsOf(PathMatcher(disk, order, root_dir,
                                                 [type |-> "list", v |-> <<subpaths.v>>]))

C15_Witness ==
    /\ matcher.built
    /\ subpaths = Str(PatAB)
    /\ matcher.prefixes = <<PatAB \o <<"/">> >>
    /\ Len(queries) = 1
    /\ queries[1].answer


\* the text files of the run whose encoding is corrupted or mixed
BrokenTextFiles ==
    {run.stat_text_list[i] : i \in {k \in 1..Len(run.stat_text_list) :
                                        data[run.stat_text_list[k]].enc = "broken"}}

\* the kinds of filesystem operation that modify the project
Modifying == {"write", "rename", "chmod", "delete"}

\* a file *.tmp.cleanup is in the project
TmpLeft == \E path \in DOMAIN data : \E stem \in DOMAIN data : path = stem \o TmpCleanup

\* C16: when cleanup-sources.py --utf has ended on a project with a text
\* file of corrupted encoding, it has modified no file, has left no
\* *.tmp.cleanup file, and has printed the broken files.
C16_UtfAllOrNothing ==
    (args.utf /\ run.pc = "done" /\ BrokenTextFiles # {}) =>
        /\ run.ops \cap Modifying = {}
        /\ ~TmpLeft
        /\ {run.broken_printed[i] : i \in 1..Len(run.broken_printed)} = BrokenTextFiles


\* the '\n'-delimited lines of a text, without their '\n'; what follows the
\* last '\n' is a line if it is not empty
RECURSIVE LinesOf(_)
LinesOf(text) ==
    IF text = <<>> THEN <<>>
    ELSE IF \A i \in 1..Len(text) : text[i] # LF THEN <<text>>
    ELSE LET i == CHOOSE k \in 1..Len(text) :
                     text[k] = LF /\ \A j \in 1..(k - 1) : text[j] # LF
         IN  <<SubSeq(text, 1, i - 1)>> \o LinesOf(SubSeq(text, i + 1, Len(text)))

\* a line without its trailing run of space, tab, CR, LF and vertical tab
RECURSIVE Stripped(_)
Stripped(line) ==
    IF line # <<>> /\ line[Len(line)] \in {Space, TAB, CR, LF, VT}
    THEN Stripped(SubSeq(line, 1, Len(line) - 1))
    ELSE line

StrippedLines(text) == [i \in 1..Len(LinesOf(text)) |-> Stripped(LinesOf(text)[i])]

\* the text uses UNIX line breaks only and has no trailing whitespace
CleanText(text) ==
    /\ \A i \in 1..Len(text) : text[i] # CR
    /\ \A i \in 2..Len(text) : text[i] = LF => text[i - 1] \notin {Space, TAB, CR, VT}
    /\ text # <<>> => text[Len(text)] = LF

\* the files fix_eol has processed
EolProcessed ==
    {run.fixed_list[i] : i \in 1..Len(run.fixed_list)}
    \cup {run.unfixed_list[i] : i \in 1..Len(run.unfixed_list)}

\* C17: after --eol has processed a text file, its content has no carriage
\* return line break, no line has a space, tab, CR or vertical tab right
\* before its line break, and a non-empty file ends with '\n'.
C17_UnixEolNoTrailing ==
    (args.eol /\ run.pc = "done") =>
        \A path \in EolProcessed : CleanText(data[path].text)

\* C18: --eol changes nothing but line terminators and trailing whitespace:
\* the lines of a file, each without its trailing run of space, tab, CR, LF
\* and vertical tab, are the same before and after fix_eol.
C18_OnlyEolChanges ==
    [][\A path \in DOMAIN data \cap DOMAIN data' :
          StrippedLines(data[path].text) = StrippedLines(data'[path].text)]_vars

C18_Witness ==
    /\ run.pc = "done"
    /\ run.fixed_list = <<NameAC>>
    /\ data[NameAC].text = <<"a", FF, LF, "a", LF>>


\* the path of the file the exact path p of the matcher stands for
OnDisk(p) == IF root_dir.type = "None" THEN p ELSE Join(root_dir.v, p)

\* the exact path the glob match wild_file is stored as
StoredAs(wild_file) ==
    IF root_dir.type = "None" THEN wild_file ELSE relpath(wild_file, root_dir.v)

\* no match that comes after a symbolic link in wild_list and starts with
\* the path of the link is in files_set
LinksShadow(wild_list, files_set) ==
    \A i, j \in 1..Len(wild_list) :
        (i < j /\ lstat_mode(disk, wild_list[i]) = "lnk"
               /\ startswith(wild_list[j], wild_list[i]))
            => StoredAs(wild_list[j]) \notin files_set

\* C19: every exact path a glob pattern adds is a regular file by lstat
\* (no directory, symbolic link, device or other file), and no match that
\* is processed after a symbolic link among the matches and starts with the
\* path of the link is added.
C19_GlobPolicy ==
    (matcher.built /\ subpaths.type = "str" /\ has_magic(subpaths.v)) =>
        /\ \A p \in matcher.files_set : lstat_mode(disk, OnDisk(p)) = "reg"
        /\ \E order \in ListingOrders :
              /\ matcher.files_set =
                    PathMatcher(disk, order, root_dir, subpaths).files_set
              /\ LinksShadow(glob(disk, order, OnDisk(subpaths.v)), matcher.files_set)

C19_Witness ==
    /\ matcher.built
    /\ subpaths = Str(PatSrcAll)
    /\ LinkFixture
    /\ PathRealFC \in matcher.files_set
    /\ PathLinkFC \notin matcher.files_set
    /\ stdout # <<>>


\* how many of --utf, --eol, --exe, --lic and --files are given
FlagsGiven ==
    Cardinality({f \in {"utf", "eol", "exe", "lic"} : args[f]})
    + (IF args.files.type # "None" THEN 1 ELSE 0)

\* the run has ended as a broken-encoding check ends: with status 1 and the
\* broken files printed if there are any, and by returning if there is none
EndedAsCheck ==
    IF BrokenTextFiles # {}
    THEN /\ run.exit = SysExit(1)
         /\ {run.broken_printed[i] : i \in 1..Len(run.broken_printed)} = BrokenTextFiles
    ELSE run.exit = Returns

\* what C20 says of a state
ExclusiveFlags ==
    /\ (FlagsGiven > 1 /\ run.pc # "parse_args") =>
          /\ run.pc = "done"
          /\ run.exit = Raises("AttributeError")
          /\ run.ops = {}
    /\ FlagsGiven = 0 =>
          /\ run.ops \cap Modifying = {}
          /\ ~TmpLeft
          /\ run.pc = "done" => EndedAsCheck

\* C20: with more than one of --utf, --eol, --exe, --lic and --files given
\* the run fails with 'Arguments are mutually exclusive' (AttributeError)
\* before any file is enumerated, read or modified; with none of them given
\* the run is a check of broken encodings that modifies nothing.
C20_MutuallyExclusive ==
    /\ []ExclusiveFlags
    /\ [][FlagsGiven # 1 => UNCHANGED <<fs, data>>]_vars

C20_Witness ==
    /\ args.utf /\ args.files.type # "None"
    /\ run.pc = "done"
    /\ run.exit = Raises("AttributeError")
    /\ Join(PyCache, NameMPyc) \in DOMAIN data
    /\ \E path \in DOMAIN data : data[path].enc = "iso-8859-1"


\* a later invocation of --eol has returned
RanAgain == run.invocation > 1 /\ run.pc = "done" /\ run.exit = Returns

\* C21: fix_eol is idempotent: a second run of --eol leaves every file
\* byte-identical to the result of the first run, and reports every file as
\* 'Already OK' (none as fixed).
C21_EolIdempotent ==
    /\ [](RanAgain => (run.fixed_list = <<>> /\ run.unfixed_list = run.stat_text_list))
    /\ [][run.invocation > 1 => data' = data]_vars


\* the files carrying an executable bit
ExeFiles == {path \in DOMAIN data : has_exe(data[path].st_mode)}

\* the files of ExeFiles cleanup_exe classifies as one of classes
ClassifiedAs(classes) == {path \in ExeFiles : exe_class(args.config, path) \in classes}

\* the mode with its three execute bits cleared and every other bit kept
ExeCleared(st_mode) ==
    CHOOSE m \in 0..511 :
        \A k \in 0..8 : Bit(m, k) = IF k \in {0, 3, 6} THEN 0 ELSE Bit(st_mode, k)

\* the file is on the config 'exe' list, on the config 'nonexe' list
OnExeList(path) == path_matches(make_path_matcher(args.config.exe), path)
OnNonexeList(path) == path_matches(make_path_matcher(args.config.nonexe), path)

\* the suffix of the file name, or the one before its '.in', is a known
\* executable suffix
HasKnownExeSuffix(path) ==
    /\ splitext_ext(input_file_name(basename(path))) # <<>>
    /\ lower(Tail(splitext_ext(input_file_name(basename(path))))) \in known_exe_suffixes

\* what cleanup_exe does to the permissions: nothing and exit 1 with an
\* unclear file, else the execute bits cleared on the non-exe files only
ExeStep ==
    IF ClassifiedAs({"unknown_ext", "no_ext"}) # {}
    THEN run'.exit = SysExit(1) /\ data' = data
    ELSE /\ run'.exit # SysExit(1)
         /\ DOMAIN data' = DOMAIN data
         /\ \A path \in DOMAIN data :
               data'[path] =
                   IF path \in ClassifiedAs({"nonexe", "known_non_exe"})
                   THEN [data[path] EXCEPT !.st_mode = ExeCleared(@)]
                   ELSE data[path]

StripLines(text) == [i \in 1..Len(text_lines(text)) |-> strip(text_lines(text)[i])]

\* the indices at which '*/' begins in s
EndsIn(s) == {j \in 1..(Len(s) - 1) : SubSeq(s, j, j + 1) = StarSlash}

\* what of line i can close the comment that '/*' opens at the beginning of
\* line b: the line after the '/*' for line b, the whole line after it
AfterBegin(L, b, i) == IF i = b THEN SubSeq(L[i], 3, Len(L[i])) ELSE L[i]

\* the first n lines of L are empty lines or lines beginning with prefix,
\* and line n is one of the latter
OneLineComment(L, n, prefix) ==
    /\ \A i \in 1..n : L[i] = <<>> \/ startswith(L[i], prefix)
    /\ startswith(L[n], prefix)

\* the first n lines of L are empty lines and then one block comment, which
\* '/*' opens at the beginning of line b and whose first '*/' ends line n
BlockComment(L, n) ==
    \E b \in 1..n :
        /\ \A i \in 1..(b - 1) : L[i] = <<>>
        /\ startswith(L[b], SlashStar)
        /\ \A i \in b..(n - 1) : EndsIn(AfterBegin(L, b, i)) = {}
        /\ EndsIn(AfterBegin(L, b, n)) = {Len(AfterBegin(L, b, n)) - 1}

\* the first line of L that is not empty begins with '/*', and the comment
\* it opens is not closed, or its first '*/' is not at the end of its line
BadBlock(L) ==
    \E b \in 1..Len(L) :
        /\ \A i \in 1..(b - 1) : L[i] = <<>>
        /\ startswith(L[b], SlashStar)
        /\ \/ \A i \in b..Len(L) : EndsIn(AfterBegin(L, b, i)) = {}
           \/ \E e \in b..Len(L) :
                 /\ \A i \in b..(e - 1) : EndsIn(AfterBegin(L, b, i)) = {}
                 /\ EndsIn(AfterBegin(L, b, e)) # {}
                 /\ EndsIn(AfterBegin(L, b, e)) # {Len(AfterBegin(L, b, e)) - 1}

\* n marks nothing but a leading comment of the lines L
LeadingComment(L, n) ==
    /\ n \in 0..Len(L)
    /\ n > 0 => \/ OneLineComment(L, n, Hash)
                \/ OneLineComment(L, n, SlashSlash)
                \/ BlockComment(L, n)
    /\ BadBlock(L) => n = 0

\* C23: leading-comment detection never marks code for removal: n is at
\* most the number of lines of the file; each of the first n lines is empty
\* after stripping, or starts with the one-line prefix '#' or '//', or lies
\* in a single block comment whose '/*' is at the beginning of its line and
\* whose first '*/' is at the end of its line; line n is a comment line when
\* n > 0; a malformed or unterminated block comment gives n = 0.
C23_NeverMarksCode ==
    \A i \in 1..Len(run.detected) :
        LeadingComment(StripLines(run.detected[i].text), run.detected[i].n)

\* a block comment of two lines, then code
C23_Witness ==
    /\ run.pc = "done"
    /\ Len(run.detected) = 1
    /\ run.detected[1].text = <<"/", "*", LF, "a", "*", "/", LF, "a", LF>>
    /\ run.detected[1].n = 2
    /\ data[PathRAC].text = <<"a", LF>>


\* root_dir as the process sees it
RealRoot == resolve_path(args.cwd, args.convert)

\* the path is root_dir, when root_dir is a file, or below root_dir
UnderRoot(path) == path = RealRoot \/ startswith(path, Append(RealRoot, "/"))

\* the path is the temporary file of root_dir, when root_dir is a file
TmpOfRoot(path) == path = RealRoot \o TmpNoFirstComment

\* the regular files below root_dir that are not below its .git
FilesUnderRoot ==
    {path \in DOMAIN data :
        /\ UnderRoot(path)
        /\ ~startswith(path, Join(RealRoot, DotGitSlash))}

\* C24: convert_all(root_dir) reads and rewrites the regular files under
\* root_dir and no other, whatever the current working directory: every
\* path of the enumeration is opened, and its temporary file created and
\* renamed, under root_dir, and convert_all returns having opened every
\* file of the enumeration.
C24_ConvertsUnderRootDir ==
    /\ \A path \in run.opened : UnderRoot(path)
    /\ \A path \in run.written : UnderRoot(path) \/ TmpOfRoot(path)
    /\ run.exit.kind # "raise"
    /\ (run.pc = "done" /\ run.exit = Returns) => run.opened = FilesUnderRoot

====
